---- MODULE Spec2Model ----
(***************************************************************************)
(* Resource / dependency resolver of tools/generate_arch_diagram.py.       *)
(*                                                                         *)
(* Encoding of text.  An identifier that may contain "__" is a sequence of *)
(* atoms joined by "__" ("dev__module_net__main" is <<"dev",               *)
(* "module_net", "main">>).  A Terraform resource id "type.name" is the    *)
(* pair <<type, name>> with name such an identifier.  A string scalar of   *)
(* an attribute body is the sequence of its dot-separated segments         *)
(* ("${aws_vpc.main.id}" is <<"aws_vpc", <<"main">>, "id">>), the second   *)
(* segment being an identifier.  All text of the universe is lower case.   *)
(***************************************************************************)
EXTENDS Integers, Sequences, FiniteSets, TLC

VARIABLES
    fmt,              \* format family of the load: "terraform", ...
    load,             \* the parsed input of the run (never changes)
    pc,               \* position in the graph function
    resources,        \* resource map: id -> attributes
    module_ref_maps,  \* module scope prefix -> (local id -> final id)
    env_ref_maps,     \* environment -> (local id -> final id)
    direct_edges,     \* edges derived from references (before any fallback)
    edges,            \* the edge set the graph function returns
    fallback_ran,     \* whether _fallback_chain_edges was called
    runs,             \* edge sets returned by repeated runs of a graph builder
    hierarchy,        \* result of _build_vpc_hierarchy
    selected,         \* main: changed_paths handed to _static_markdown
    attempted,        \* _static_markdown: the formats tried so far, in order
    files_read,       \* source files read for resource loading in this run
    out_md,           \* main: document written to --out-md
    out_mmd,          \* main: text written to --out-mmd
    exit_code         \* main: return value

\* State of the callers of the graph functions (main, _static_markdown,
\* _build_vpc_hierarchy); the graph functions themselves never touch it.
callerVars == <<runs, hierarchy, selected, attempted, files_read,
                out_md, out_mmd, exit_code>>

vars == <<fmt, load, pc, resources, module_ref_maps, env_ref_maps,
          direct_edges, edges, fallback_ran, callerVars>>

None == "<none>"

\* The callers' state before any caller has acted.
InitCallers ==
    /\ runs = <<>>
    /\ hierarchy = <<>>
    /\ selected = <<>>
    /\ attempted = <<>>
    /\ files_read = {}
    /\ out_md = [marker |-> None]    \* no document written yet
    /\ out_mmd = <<>>
    /\ exit_code = -1               \* main has not returned

\* Bounds of the model.
MaxFiles == 3
MaxBlocks == 3

EmptyMap == [x \in {} |-> None]

Put(f, k, v) == [x \in (DOMAIN f) \cup {k} |-> IF x = k THEN v ELSE f[x]]

Get(f, k, default) == IF k \in DOMAIN f THEN f[k] ELSE default

Min(S) == CHOOSE x \in S : \A y \in S : x <= y

(***************************************************************************)
(* Parsed values: the map / list / scalar trees the HCL parser returns.    *)
(***************************************************************************)
Str(s) == [k |-> "str", v |-> s]
Lst(l) == [k |-> "list", v |-> l]
NoneV == [k |-> "none", v |-> <<>>]

RECURSIVE StringsIn(_)
\* _walk restricted to what its callers keep: the string scalars of a value.
StringsIn(val) ==
    IF val.k = "str" THEN {val.v}
    ELSE IF val.k = "list"
         THEN UNION {StringsIn(val.v[i]) : i \in 1..Len(val.v)}
         ELSE {}

\* _walk over an attribute dict: the string scalars of all its values.
Walk(attrs) == UNION {StringsIn(attrs[key]) : key \in DOMAIN attrs}

\* A regex without the trailing "(?:\.[a-zA-Z0-9_]+)*": "T.N" alone matches.
TfRefRe_NoAttr(s) == IF Len(s) = 2 THEN {<<s[1], s[2]>>} ELSE {}

\* _TF_REF_RE: "identifier.identifier", trailing ".attr" segments discarded.
TfRefRe(s) == IF Len(s) >= 2 THEN {<<s[1], s[2]>>} ELSE {}

ExtractTfResourceRefs(attrs) == UNION {TfRefRe(s) : s \in Walk(attrs)}

\* _extract_tf_resource_refs applied to the depends_on value alone.
ExtractTfRefsOfValue(val) == UNION {TfRefRe(s) : s \in StringsIn(val)}

(***************************************************************************)
(* Environments and module scopes.                                         *)
(***************************************************************************)
KNOWN_ENV_NAMES ==
    {"dev", "development", "preprod", "pre-prod", "prod", "production",
     "stage", "staging", "qa", "test", "uat", "sandbox", "shared"}

ENV_DIR_EXCLUDE ==
    {"modules", "module", "account_config", "accounts", "artifacts",
     "templates", "template", "img", "images", "cloud_formation", "config",
     "configs"}

IsKnownEnv(name) == name \in KNOWN_ENV_NAMES

\* The atoms of the universe that start with "module_".
ModuleAtoms == {"module_net"}

StartsWithModule(atom) == atom \in ModuleAtoms

DetectEnvironmentFromPath(parts) ==
    LET hits == {i \in 1..(Len(parts) - 1) :
                    /\ parts[i] = "terraform"
                    /\ \/ IsKnownEnv(parts[i + 1])
                       \/ parts[i + 1] \notin ENV_DIR_EXCLUDE}
        known == {i \in 1..Len(parts) : IsKnownEnv(parts[i])}
    IN  IF hits # {} THEN parts[Min(hits) + 1]
        ELSE IF known # {} THEN parts[Min(known)]
        ELSE None

ApplyEnvPrefixToResId(res_id, env) == <<res_id[1], <<env>> \o res_id[2]>>

\* The module scope prefix of a resource id ("module_a__" is <<"module_a">>);
\* the empty prefix <<>> stands for the None the code returns.
ModulePrefixForResource(res) ==
    LET rname == res[2]
        stripped == Len(rname) >= 2 /\ IsKnownEnv(rname[1])
        base_name == IF stripped THEN Tail(rname) ELSE rname
    IN  IF StartsWithModule(base_name[1]) /\ Len(base_name) >= 2
        THEN IF stripped THEN <<rname[1], base_name[1]>> ELSE <<base_name[1]>>
        ELSE <<>>

(***************************************************************************)
(* Resource loading (Terraform).                                           *)
(*                                                                         *)
(* A parsed file is [path, resource, module]: path the sequence of its     *)
(* path parts below the repository root, resource the list of parsed       *)
(* resource blocks [type, name, attrs], module the list of parsed module   *)
(* blocks [name, source], a source being the sequence of its path          *)
(* components.  load.fs maps a directory to the sorted list of the parsed  *)
(* *.tf files in it.                                                       *)
(***************************************************************************)
IsNullType(r_type) == r_type \in {"null_resource", "null_data_source"}

RECURSIVE TfResourcesFrom(_, _, _, _)
TfResourcesFrom(blocks, name_prefix, i, acc) ==
    IF i > Len(blocks) THEN acc
    ELSE LET b == blocks[i]
         IN  IF IsNullType(b.type)
             THEN TfResourcesFrom(blocks, name_prefix, i + 1, acc)
             ELSE TfResourcesFrom(blocks, name_prefix, i + 1,
                      Put(acc, <<b.type, name_prefix \o <<b.name>>>>, b.attrs))

\* {"type.<name_prefix>name": attrs} of one parsed document.
TerraformResourcesFromHcl(parsed, name_prefix) ==
    TfResourcesFrom(parsed.resource, name_prefix, 1, EmptyMap)

\* The (alias, source) pairs of the module blocks of one parsed document.
TerraformModulesFromHcl(parsed) ==
    SelectSeq(parsed.module, LAMBDA m : Len(m.source) > 0)

IsRemoteSource(source) == source[1] \in {"git::", "https://"}

\* The directory "no directory" (the None of _resolve_local_module_dir).
NoDir == <<None>>

RECURSIVE ResolvePath(_, _)
\* Path.resolve of base joined with the components comps; NoDir once it
\* climbs above the repository root.
ResolvePath(base, comps) ==
    IF base = NoDir \/ comps = <<>> THEN base
    ELSE IF comps[1] = "." THEN ResolvePath(base, Tail(comps))
    ELSE IF comps[1] = ".."
         THEN IF base = <<>> THEN NoDir
              ELSE ResolvePath(SubSeq(base, 1, Len(base) - 1), Tail(comps))
    ELSE ResolvePath(Append(base, comps[1]), Tail(comps))

\* The absolute path of the repository root (Path.cwd()).
RepoRoot == <<"repo">>

RECURSIVE ResolveAbs(_, _)
\* Path.resolve of the absolute path base joined with comps; ".." at the
\* file system root stays there.
ResolveAbs(base, comps) ==
    IF comps = <<>> THEN base
    ELSE IF comps[1] = "." THEN ResolveAbs(base, Tail(comps))
    ELSE IF comps[1] = ".."
         THEN ResolveAbs(IF base = <<>> THEN <<>>
                         ELSE SubSeq(base, 1, Len(base) - 1), Tail(comps))
    ELSE ResolveAbs(Append(base, comps[1]), Tail(comps))

\* A resolution that takes an absolute source as relative to the root.
ResolveLocalModuleDir_NoRootCheck(source, base_dir, fs) ==
    IF source = <<>> \/ IsRemoteSource(source) THEN NoDir
    ELSE LET candidate ==
                 IF source[1] = "/" THEN ResolvePath(<<>>, Tail(source))
                 ELSE IF source[1] \in {".", ".."}
                      THEN ResolvePath(base_dir, source)
                      ELSE NoDir
         IN  IF candidate \notin DOMAIN fs THEN NoDir ELSE candidate

\* _resolve_local_module_dir: the directory relative to the root, NoDir
\* for the None of the code.
ResolveLocalModuleDir(source, base_dir, fs) ==
    IF source = <<>> \/ IsRemoteSource(source) THEN NoDir
    ELSE IF source[1] \notin {"/", ".", ".."} THEN NoDir
    ELSE LET candidate ==
                 IF source[1] = "/" THEN ResolveAbs(<<>>, Tail(source))
                 ELSE ResolveAbs(RepoRoot \o base_dir, source)
             inside ==
                 /\ Len(candidate) >= Len(RepoRoot)
                 /\ SubSeq(candidate, 1, Len(RepoRoot)) = RepoRoot
             rel == SubSeq(candidate, Len(RepoRoot) + 1, Len(candidate))
         IN  IF inside /\ rel \in DOMAIN fs THEN rel ELSE NoDir

Parent(path) == SubSeq(path, 1, Len(path) - 1)

\* The string scalar of a file name, split at its dots.
FileNameScalar(name) ==
    CASE name = "main.tf" -> <<"main", <<"tf">>>>
      [] name = "aws_vpc.main.tf" -> <<"aws_vpc", <<"main">>, "tf">>
      [] name = "net.tf" -> <<"net", <<"tf">>>>
      [] OTHER -> <<name>>

\* as_posix() of a path as a string scalar: only its file name has dots.
PathScalar(path) == FileNameScalar(path[Len(path)])

EnvValue(env) == IF env = None THEN NoneV ELSE Str(<<env>>)

\* attrs_copy with the three bookkeeping keys set.
WithBookkeeping(attrs, env, logical_id, path) ==
    Put(Put(Put(attrs, "_auto_arch_env", EnvValue(env)),
            "_auto_arch_logical_id", Str(logical_id)),
        "_auto_arch_source_file", Str(PathScalar(path)))

EnvOfFile(path, env_prefix_enabled) ==
    LET env == DetectEnvironmentFromPath(path)
    IN  IF env_prefix_enabled /\ env = None THEN "shared" ELSE env

\* Loop "for res_id, attrs in base_resources.items()" of one input file.
AddBaseResources(acc, f, env, env_prefix_enabled) ==
    LET base == TerraformResourcesFromHcl(f, <<>>)
        prefixing == env_prefix_enabled /\ env # None
        final(res_id) == IF prefixing THEN ApplyEnvPrefixToResId(res_id, env)
                         ELSE res_id
        new_res == [id \in {final(r) : r \in DOMAIN base} |->
                       LET r == CHOOSE r \in DOMAIN base : final(r) = id
                       IN  WithBookkeeping(base[r], env, r, f.path)]
        res2 == [id \in (DOMAIN acc.resources) \cup (DOMAIN new_res) |->
                    IF id \in DOMAIN new_res THEN new_res[id]
                    ELSE acc.resources[id]]
        old_map == Get(acc.env_ref_maps, env, EmptyMap)
        env_map == [r \in (DOMAIN old_map) \cup (DOMAIN base) |->
                       IF r \in DOMAIN base THEN final(r) ELSE old_map[r]]
    IN  [resources |-> res2,
         module_ref_maps |-> acc.module_ref_maps,
         env_ref_maps |-> IF prefixing /\ DOMAIN base # {}
                          THEN Put(acc.env_ref_maps, env, env_map)
                          ELSE acc.env_ref_maps]

\* Body of "for module_file in module_files" for one module file.
AddModuleFile(acc, mf, env, env_prefix_enabled, env_module_prefix) ==
    LET base == TerraformResourcesFromHcl(mf, <<>>)
        module_resources == TerraformResourcesFromHcl(mf, env_module_prefix)
        prefixing == env_prefix_enabled /\ env # None
        old_ref == Get(acc.module_ref_maps, env_module_prefix, EmptyMap)
        ref_map == [r \in (DOMAIN old_ref) \cup (DOMAIN base) |->
                       IF r \in DOMAIN base
                       THEN <<r[1], env_module_prefix \o r[2]>>
                       ELSE old_ref[r]]
        res2 == [id \in (DOMAIN acc.resources) \cup (DOMAIN module_resources) |->
                    IF id \in DOMAIN module_resources
                    THEN WithBookkeeping(module_resources[id], env, id, mf.path)
                    ELSE acc.resources[id]]
        old_map == Get(acc.env_ref_maps, env, EmptyMap)
        env_map == [r \in (DOMAIN old_map) \cup (DOMAIN module_resources) |->
                       IF r \in DOMAIN module_resources THEN r ELSE old_map[r]]
    IN  [resources |-> res2,
         module_ref_maps |-> Put(acc.module_ref_maps, env_module_prefix, ref_map),
         env_ref_maps |-> IF prefixing /\ DOMAIN module_resources # {}
                          THEN Put(acc.env_ref_maps, env, env_map)
                          ELSE acc.env_ref_maps]

RECURSIVE AddModuleFiles(_, _, _, _, _, _)
\* Loop "for module_file in module_files"; the maps after a file are bound
\* as a value before the next file is read.
AddModuleFiles(acc, mfiles, i, env, env_prefix_enabled, env_module_prefix) ==
    IF i > Len(mfiles) THEN acc
    ELSE CHOOSE last \in
             {AddModuleFiles(next, mfiles, i + 1, env, env_prefix_enabled,
                             env_module_prefix) :
                next \in {AddModuleFile(acc, mfiles[i], env, env_prefix_enabled,
                                        env_module_prefix)}} : TRUE

ModuleAtom(module_name) == "module_" \o module_name

RECURSIVE AddModules_Nested(_, _, _, _, _, _)
\* An expansion that also follows the module blocks of the first file of
\* an expanded module, one level further.
AddModules_Nested(acc, f, mods, i, env, fs_enabled) ==
    IF i > Len(mods) THEN acc
    ELSE LET fs == fs_enabled[1]
             env_prefix_enabled == fs_enabled[2]
             module_dir == ResolveLocalModuleDir(mods[i].source, Parent(f.path), fs)
             module_prefix == <<ModuleAtom(mods[i].name)>>
             env_module_prefix ==
                 IF env_prefix_enabled /\ env # None
                 THEN <<env>> \o module_prefix ELSE module_prefix
             inner == IF module_dir = NoDir THEN <<>>
                      ELSE TerraformModulesFromHcl(fs[module_dir][1])
             inner_dir == IF inner = <<>> THEN NoDir
                          ELSE ResolveLocalModuleDir(inner[1].source,
                                                     module_dir, fs)
             a1 == IF module_dir = NoDir THEN acc
                   ELSE AddModuleFiles(acc, fs[module_dir], 1, env,
                                       env_prefix_enabled, env_module_prefix)
             a2 == IF inner_dir = NoDir THEN a1
                   ELSE AddModuleFiles(a1, fs[inner_dir], 1, env,
                                       env_prefix_enabled, env_module_prefix)
         IN  AddModules_Nested(a2, f, mods, i + 1, env, fs_enabled)

RECURSIVE AddModules(_, _, _, _, _, _)
\* Loop "for module_name, source in _terraform_modules_from_hcl(parsed)".
AddModules(acc, f, mods, i, env, fs_enabled) ==
    IF i > Len(mods) THEN acc
    ELSE LET fs == fs_enabled[1]
             env_prefix_enabled == fs_enabled[2]
             module_dir == ResolveLocalModuleDir(mods[i].source, Parent(f.path), fs)
             module_prefix == <<ModuleAtom(mods[i].name)>>
             env_module_prefix ==
                 IF env_prefix_enabled /\ env # None
                 THEN <<env>> \o module_prefix ELSE module_prefix
         IN  IF module_dir = NoDir
             THEN AddModules(acc, f, mods, i + 1, env, fs_enabled)
             ELSE CHOOSE last \in
                      {AddModules(next, f, mods, i + 1, env, fs_enabled) :
                         next \in {AddModuleFiles(acc, fs[module_dir], 1, env,
                                                  env_prefix_enabled,
                                                  env_module_prefix)}} : TRUE

RECURSIVE LoadFiles(_, _, _, _, _)
\* Loop "for f in files" of _terraform_resources_from_files: the maps after
\* the file's own resources (a1), then after its modules (a2), each bound as
\* a value before the next statement reads it.
LoadFiles(acc, files, i, fs, env_prefix_enabled) ==
    IF i > Len(files) THEN acc
    ELSE LET f == files[i]
             env == EnvOfFile(f.path, env_prefix_enabled)
         IN  CHOOSE last \in
                 {LoadFiles(a2, files, i + 1, fs, env_prefix_enabled) :
                    a2 \in {AddModules(a1, f, TerraformModulesFromHcl(f), 1, env,
                                       <<fs, env_prefix_enabled>>) :
                              a1 \in {AddBaseResources(acc, f, env,
                                                       env_prefix_enabled)}}} : TRUE

EnvsInFiles(files) ==
    {DetectEnvironmentFromPath(files[i].path) : i \in 1..Len(files)} \ {None}

\* Prefixing switched on by a single environment already.
EnvPrefixEnabled_AnyEnv(files) == Cardinality(EnvsInFiles(files)) > 0

EnvPrefixEnabled(files) == Cardinality(EnvsInFiles(files)) > 1

\* A loader that stops after the first input file.
TerraformResourcesFromFiles_FirstOnly(files, fs) ==
    LoadFiles([resources |-> EmptyMap, module_ref_maps |-> EmptyMap,
               env_ref_maps |-> EmptyMap],
              SubSeq(files, 1, 1), 1, fs, EnvPrefixEnabled(files))

\* _terraform_resources_from_files: (resources, module_ref_maps, env_ref_maps).
TerraformResourcesFromFiles(files, fs) ==
    LoadFiles([resources |-> EmptyMap, module_ref_maps |-> EmptyMap,
               env_ref_maps |-> EmptyMap],
              files, 1, fs, EnvPrefixEnabled(files))

(***************************************************************************)
(* Graph building (Terraform).                                             *)
(***************************************************************************)
\* The environment read from a key the loader never sets.
EnvOfAttrs_WrongKey(attrs) ==
    IF "_auto_arch_environment" \in DOMAIN attrs THEN "dev" ELSE None

\* Every resource taken to be of environment dev.
EnvOfAttrs_AlwaysDev(attrs) == "dev"

\* _normalize_env_name(attrs.get("_auto_arch_env")).
EnvOfAttrs(attrs) ==
    IF "_auto_arch_env" \in DOMAIN attrs /\ attrs["_auto_arch_env"].k = "str"
    THEN attrs["_auto_arch_env"].v[1]
    ELSE None

\* {ref_map.get(r, r) for r in refs}
Remap(ref_map, refs) == {Get(ref_map, r, r) : r \in refs}

\* The references of one resource after module and environment remapping.
RemappedRefs(res, attrs, mmaps, emaps) ==
    LET refs0 == ExtractTfResourceRefs(attrs)
                 \cup (IF "depends_on" \in DOMAIN attrs
                          /\ attrs["depends_on"].k # "none"
                       THEN ExtractTfRefsOfValue(attrs["depends_on"])
                       ELSE {})
        module_prefix == ModulePrefixForResource(res)
        refs1 == IF module_prefix # <<>> /\ module_prefix \in DOMAIN mmaps
                 THEN Remap(mmaps[module_prefix], refs0)
                 ELSE refs0
        env == EnvOfAttrs(attrs)
    IN  IF env # None /\ env \in DOMAIN emaps
        THEN Remap(emaps[env], refs1)
        ELSE refs1

\* The test without "ref != res".
KeepsEdge_SelfAllowed(ref, res, all_resources) ==
    ref \in DOMAIN all_resources

\* The test without "ref in all_resources".
KeepsEdge_AnyRef(ref, res, all_resources) ==
    ref # res

\* "if ref in all_resources and ref != res": the test an edge must pass.
KeepsEdge(ref, res, all_resources) ==
    ref \in DOMAIN all_resources /\ ref # res

\* The loop "for res, attrs in all_resources.items()" of _static_terraform_graph.
TerraformDirectEdges(all_resources, mmaps, emaps) ==
    UNION {{<<ref, res>> :
              ref \in {r \in RemappedRefs(res, all_resources[res], mmaps, emaps) :
                          KeepsEdge(r, res, all_resources)}} :
           res \in DOMAIN all_resources}

(***************************************************************************)
(* Fallback chain.                                                         *)
(***************************************************************************)
\* The atoms of the universe in the order Python's str comparison gives
\* them.  No atom is a prefix of another, but the type aws_vpc of the type
\* aws_vpc_endpoint: the "." that follows a type sorts before "_", as the
\* ranks do.  So comparing two ids atom by atom is comparing their strings
\* character by character.
AtomOrder ==
    <<"10", "ami", "aws_instance", "aws_security_group", "aws_subnet",
      "aws_vpc", "aws_vpc_endpoint", "backup", "dev", "endpoint_main",
      "main", "module_net", "private", "prod",
      "public", "sg", "shared", "team1", "tf", "web">>

AtomRank(a) == CHOOSE i \in 1..Len(AtomOrder) : AtomOrder[i] = a

RECURSIVE SeqLess(_, _)
\* Lexicographic order of two atom sequences.
SeqLess(a, b) ==
    IF a = <<>> THEN b # <<>>
    ELSE IF b = <<>> THEN FALSE
    ELSE IF a[1] = b[1] THEN SeqLess(Tail(a), Tail(b))
    ELSE AtomRank(a[1]) < AtomRank(b[1])

\* "type.name" < "type2.name2" as Python strings.
IdLess(a, b) == SeqLess(<<a[1]>> \o a[2], <<b[1]>> \o b[2])

RECURSIVE Sorted(_)
\* sorted(res_list)
Sorted(S) ==
    IF S = {} THEN <<>>
    ELSE LET m == CHOOSE x \in S : \A y \in S \ {x} : IdLess(x, y)
         IN  <<m>> \o Sorted(S \ {m})

\* A zip that pairs each element with the one after the next.
ChainOf_Skip(ordered) ==
    {<<ordered[i], ordered[i + 2]>> : i \in 1..(Len(ordered) - 2)}

\* zip(ordered, ordered[1:])
ChainOf(ordered) ==
    {<<ordered[i], ordered[i + 1]>> : i \in 1..(Len(ordered) - 1)}

\* The key _fallback_chain_edges groups a resource under.
FallbackGroupKey(res) == ModulePrefixForResource(res)

FallbackChainEdges(all_resources) ==
    LET keys == {FallbackGroupKey(r) : r \in DOMAIN all_resources}
        group(key) == {r \in DOMAIN all_resources : FallbackGroupKey(r) = key}
    IN  UNION {ChainOf(Sorted(group(key))) : key \in keys}

\* The fallback taken whenever fewer than two edges were found.
FallbackNeeded_Sparse(e) == Cardinality(e) < 2

\* "if not edges:" of _static_terraform_graph.
FallbackNeeded(e) == e = {}

(***************************************************************************)
(* The Terraform loads of the model.                                       *)
(*                                                                         *)
(* At most MaxFiles input files out of TfPaths (two files of environment   *)
(* dev in one directory, one of prod, one of the directory team1, which is *)
(* no known environment name), one module directory terraform/modules/net, *)
(* at most MaxBlocks resource blocks over the input files and the module   *)
(* file, and at most one module block (alias net) including the module.    *)
(***************************************************************************)
TfPaths ==
    << <<"terraform", "dev", "main.tf">>,
       <<"terraform", "dev", "net.tf">>,
       <<"terraform", "prod", "main.tf">>,
       <<"terraform", "team1", "main.tf">> >>

ModuleDir == <<"terraform", "modules", "net">>

ModuleSource == <<"..", "modules", "net">>

Cidr == Str(<<"10", <<"0">>, "0", "0">>)

\* "${aws_vpc.main.id}" and "${aws_vpc.main}"
VpcIdRef == Str(<<"aws_vpc", <<"main">>, "id">>)

VpcRef == Str(<<"aws_vpc", <<"main">>>>)

BodyKinds(lid) ==
    IF lid = "vpc" THEN {"plain", "attr"}
    ELSE {"plain", "attr", "dep", "attr_dep"}

BodyAttrs(kind) ==
    CASE kind = "plain" -> [cidr_block |-> Cidr]
      [] kind = "attr" -> [cidr_block |-> Cidr, vpc_id |-> VpcIdRef]
      [] kind = "dep" -> [cidr_block |-> Cidr, depends_on |-> Lst(<<VpcRef>>)]
      [] kind = "attr_dep" ->
            [cidr_block |-> Cidr, vpc_id |-> VpcIdRef,
             depends_on |-> Lst(<<VpcRef>>)]

Block(lid, kind) ==
    IF lid = "vpc"
    THEN [type |-> "aws_vpc", name |-> "main", attrs |-> BodyAttrs(kind)]
    ELSE [type |-> "aws_subnet", name |-> "public", attrs |-> BodyAttrs(kind)]

\* The resource blocks of file i (0: the module file) under a choice of
\* items and body kinds.
BlocksOf(i, chosen, kind) ==
    (IF <<"res", i, "vpc">> \in chosen
     THEN <<Block("vpc", kind[<<"res", i, "vpc">>])>> ELSE <<>>)
    \o (IF <<"res", i, "subnet">> \in chosen
        THEN <<Block("subnet", kind[<<"res", i, "subnet">>])>> ELSE <<>>)

RECURSIVE SeqOfIdx(_)
\* The members of a set of indices in increasing order.
SeqOfIdx(S) ==
    IF S = {} THEN <<>> ELSE <<Min(S)>> \o SeqOfIdx(S \ {Min(S)})

TfLoad(idx, chosen, kind, includer) ==
    LET order == SeqOfIdx(idx)
        file(i) ==
            [path |-> TfPaths[i],
             resource |-> BlocksOf(i, chosen, kind),
             module |-> IF i = includer
                        THEN <<[name |-> "net", source |-> ModuleSource]>>
                        ELSE <<>>]
    IN  [files |-> [n \in 1..Len(order) |-> file(order[n])],
         fs |-> [d \in {ModuleDir} |->
                    <<[path |-> ModuleDir \o <<"main.tf">>,
                       resource |-> BlocksOf(0, chosen, kind),
                       module |-> <<>>]>>]]

TfSlots(idx) ==
    {<<"res", i, lid>> : i \in idx \cup {0}, lid \in {"vpc", "subnet"}}

InitTerraform ==
    /\ fmt = "terraform"
    /\ \E idx \in SUBSET (1..Len(TfPaths)) :
         /\ idx # {}
         /\ Cardinality(idx) <= MaxFiles
         /\ \E chosen \in SUBSET TfSlots(idx) :
              /\ Cardinality(chosen) <= MaxBlocks
              /\ \E kind \in [chosen -> {"plain", "attr", "dep", "attr_dep"}],
                    includer \in idx \cup {0} :
                   /\ \A c \in chosen : kind[c] \in BodyKinds(c[3])
                   /\ (\A c \in chosen : c[2] # 0) => includer = 0
                   /\ load = TfLoad(idx, chosen, kind, includer)
    /\ pc = "start"
    /\ resources = EmptyMap
    /\ module_ref_maps = EmptyMap
    /\ env_ref_maps = EmptyMap
    /\ direct_edges = {}
    /\ edges = {}
    /\ fallback_ran = FALSE
    /\ InitCallers

(***************************************************************************)
(* _static_terraform_graph, step by step.                                  *)
(***************************************************************************)
\* Lines 3376-3382: load the resources; no resource at all raises.
LoadTerraform ==
    /\ fmt = "terraform"
    /\ pc = "start"
    /\ \E r \in {TerraformResourcesFromFiles(load.files, load.fs)} :
           /\ resources' = r.resources
           /\ module_ref_maps' = r.module_ref_maps
           /\ env_ref_maps' = r.env_ref_maps
           /\ pc' = IF DOMAIN r.resources = {} THEN "raised" ELSE "loaded"
    /\ UNCHANGED callerVars
    /\ UNCHANGED <<fmt, load, direct_edges, edges, fallback_ran>>

\* Lines 3384-3401: the reference-derived edges.
BuildTerraformEdges ==
    /\ fmt = "terraform"
    /\ pc = "loaded"
    /\ direct_edges' = TerraformDirectEdges(resources, module_ref_maps, env_ref_maps)
    /\ edges' = direct_edges'
    /\ pc' = "built"
    /\ UNCHANGED callerVars
    /\ UNCHANGED <<fmt, load, resources, module_ref_maps, env_ref_maps, fallback_ran>>

\* Lines 3402-3405: no edge, so the fallback chain replaces the edge set.
FallbackChain ==
    /\ fmt = "terraform"
    /\ pc = "built"
    /\ FallbackNeeded(edges)
    /\ edges' = FallbackChainEdges(resources)
    /\ fallback_ran' = TRUE
    /\ pc' = "done"
    /\ UNCHANGED callerVars
    /\ UNCHANGED <<fmt, load, resources, module_ref_maps, env_ref_maps, direct_edges>>

\* Line 3406 reached with edges: they are returned as they are.
ReturnEdges ==
    /\ fmt = "terraform"
    /\ pc = "built"
    /\ ~FallbackNeeded(edges)
    /\ pc' = "done"
    /\ UNCHANGED callerVars
    /\ UNCHANGED <<fmt, load, resources, module_ref_maps, env_ref_maps,
                   direct_edges, edges, fallback_ran>>

NextTerraform ==
    \/ LoadTerraform
    \/ BuildTerraformEdges
    \/ FallbackChain
    \/ ReturnEdges

SpecTerraform == InitTerraform /\ [][NextTerraform]_vars

(***************************************************************************)
(* CloudFormation.                                                         *)
(*                                                                         *)
(* A string is [dots, subs]: dots the sequence of its "."-separated        *)
(* segments, subs the sequence of its "${...}" placeholders, each the      *)
(* sequence of the "."-separated segments between the braces.  A logical   *)
(* id is such a string of one segment and no placeholder.                  *)
(***************************************************************************)
CStr(dots, subs) == [dots |-> dots, subs |-> subs]

CId(name) == CStr(<<name>>, <<>>)

Map(f) == [k |-> "map", v |-> f]

\* m.group(1) of every match of \$\{([A-Za-z0-9]+)(?:\.[^\}]+)?\} in a string.
SubRefs(str) == {CId(str.subs[i][1]) : i \in 1..Len(str.subs)}

\* The string form of Fn::GetAtt taken whole, without the split at ".".
CfnNodeRefs_NoSplit(item) ==
    (IF "Ref" \in DOMAIN item /\ item["Ref"].k = "str"
     THEN {item["Ref"].v} ELSE {})
    \cup (IF "Fn::GetAtt" \in DOMAIN item
          THEN LET ga == item["Fn::GetAtt"]
               IN  IF ga.k = "list"
                   THEN IF Len(ga.v) > 0 /\ ga.v[1].k = "str"
                        THEN {ga.v[1].v} ELSE {}
                   ELSE IF ga.k = "str" THEN {ga.v} ELSE {}
          ELSE {})
    \cup (IF "Fn::Sub" \in DOMAIN item /\ item["Fn::Sub"].k = "str"
          THEN SubRefs(item["Fn::Sub"].v) ELSE {})

\* The references one dict node contributes (Ref, Fn::GetAtt, Fn::Sub).
CfnNodeRefs(item) ==
    (IF "Ref" \in DOMAIN item /\ item["Ref"].k = "str"
     THEN {item["Ref"].v} ELSE {})
    \cup (IF "Fn::GetAtt" \in DOMAIN item
          THEN LET ga == item["Fn::GetAtt"]
               IN  IF ga.k = "list"
                   THEN IF Len(ga.v) > 0 /\ ga.v[1].k = "str"
                        THEN {ga.v[1].v} ELSE {}
                   ELSE IF ga.k = "str"
                        THEN {CId(ga.v.dots[1])}   \* ga.split(".", 1)[0]
                        ELSE {}
          ELSE {})
    \cup (IF "Fn::Sub" \in DOMAIN item /\ item["Fn::Sub"].k = "str"
          THEN SubRefs(item["Fn::Sub"].v) ELSE {})

RECURSIVE ExtractCfnRefs(_)
\* _extract_cfn_refs: every node of _walk(value) contributes.
ExtractCfnRefs(value) ==
    IF value.k = "map"
    THEN CfnNodeRefs(value.v)
         \cup UNION {ExtractCfnRefs(value.v[key]) : key \in DOMAIN value.v}
    ELSE IF value.k = "list"
    THEN UNION {ExtractCfnRefs(value.v[i]) : i \in 1..Len(value.v)}
    ELSE IF value.k = "str" THEN SubRefs(value.v)
    ELSE {}

\* body.get(key)
GetV(body, key) == IF key \in DOMAIN body.v THEN body.v[key] ELSE NoneV

\* The references of one resource body: Properties plus DependsOn.
CfnRefsOfBody(body) ==
    LET depends_on == GetV(body, "DependsOn")
    IN  ExtractCfnRefs(GetV(body, "Properties"))
        \cup (IF depends_on.k = "str" THEN {depends_on.v}
              ELSE IF depends_on.k = "list"
              THEN {depends_on.v[i].v :
                      i \in {j \in 1..Len(depends_on.v) : depends_on.v[j].k = "str"}}
              ELSE {})

RECURSIVE CfnResourcesFrom(_, _, _)
\* Lines 3725-3731: the Resources entries of all templates whose value is a dict.
CfnResourcesFrom(templates, i, acc) ==
    IF i > Len(templates) THEN acc
    ELSE LET r == GetV(templates[i], "Resources")
             admitted == IF r.k = "map"
                         THEN {id \in DOMAIN r.v : r.v[id].k = "map"} ELSE {}
         IN  CfnResourcesFrom(templates, i + 1,
                 [id \in (DOMAIN acc) \cup admitted |->
                     IF id \in admitted THEN r.v[id] ELSE acc[id]])

\* "if ref in resources and ref != rid" of _static_cloudformation_graph.
CfnKeepsEdge(ref, rid, all_resources) ==
    ref \in DOMAIN all_resources /\ ref # rid

CfnEdges(all_resources) ==
    UNION {{<<ref, rid>> :
              ref \in {r \in CfnRefsOfBody(all_resources[rid]) :
                          CfnKeepsEdge(r, rid, all_resources)}} :
           rid \in DOMAIN all_resources}

(***************************************************************************)
(* The CloudFormation loads of the model: one or two templates declaring   *)
(* some of Bucket, Role and Func; Role and Func carry at most              *)
(* MaxCfnEntries entries that refer to another resource or to themselves.  *)
(***************************************************************************)
MaxCfnEntries == 2

GetAttList(x, attr) == Map([key \in {"Fn::GetAtt"} |->
                               Lst(<<Str(CId(x)), Str(CStr(attr, <<>>))>>)])

GetAttString(x, attr) == Map([key \in {"Fn::GetAtt"} |->
                                 Str(CStr(<<x>> \o attr, <<>>))])

RefTo(x) == Map([key \in {"Ref"} |-> Str(CId(x))])

\* Fn::Sub: "arn:${x}/${y.Arn}"
SubOf(x, y) == Map([key \in {"Fn::Sub"} |->
                       Str(CStr(<<"arn:${" \o x \o "}/${" \o y, "Arn}">>,
                                << <<x>>, <<y, "Arn">> >>))])

\* A bare string "${x.Arn}" and a string without placeholder.
BareSub(x) == Str(CStr(<<"${" \o x, "Arn}">>, << <<x, "Arn">> >>))

PlainText == Str(CStr(<<"index", "handler">>, <<>>))

\* The property values a resource may carry, by the logical id they name.
CfnEntryPool ==
    {[key |-> "Role", val |-> GetAttList("Role", <<"Arn">>)],
     [key |-> "Role", val |-> GetAttString("Role", <<"Arn">>)],
     [key |-> "Nested", val |-> GetAttList("Role", <<"Outputs", "Name">>)],
     [key |-> "Nested", val |-> GetAttString("Role", <<"Outputs", "Name">>)],
     [key |-> "Source", val |-> RefTo("Bucket")],
     [key |-> "Self", val |-> RefTo("Func")],
     [key |-> "Policy", val |-> SubOf("Bucket", "Role")],
     [key |-> "Target", val |-> BareSub("Queue")],
     [key |-> "DependsOn", val |-> Str(CId("Role"))],
     [key |-> "DependsOn", val |-> Lst(<<Str(CId("Bucket")), Str(CId("Role"))>>)]}

CfnEntrySets ==
    {es \in SUBSET CfnEntryPool :
        /\ Cardinality(es) <= MaxCfnEntries
        /\ \A e1, e2 \in es : e1.key = e2.key => e1 = e2}

CfnTypes == [Bucket |-> "AWS::S3::Bucket", Role |-> "AWS::IAM::Role",
             Func |-> "AWS::Lambda::Function"]

\* A resource body {Type, Properties, DependsOn} from a set of entries.
CfnBody(name, es) ==
    LET props == {e \in es : e.key # "DependsOn"}
        deps == {e \in es : e.key = "DependsOn"}
        properties ==
            Map([key \in {"Handler"} \cup {e.key : e \in props} |->
                    IF key = "Handler" THEN PlainText
                    ELSE (CHOOSE e \in props : e.key = key).val])
        base == [Type |-> Str(CStr(<<CfnTypes[name]>>, <<>>)),
                 Properties |-> properties]
    IN  Map(IF deps = {} THEN base
            ELSE Put(base, "DependsOn", (CHOOSE e \in deps : TRUE).val))

\* The same body written without its Type line.
WithoutType(body) ==
    Map([key \in (DOMAIN body.v) \ {"Type"} |-> body.v[key]])

CfnTemplate(ids, body) ==
    Map([key \in {"Resources"} |-> Map([id \in ids |-> body[id]])])

InitCloudFormation ==
    /\ fmt = "cloudformation"
    /\ \E names \in SUBSET {"Bucket", "Role", "Func"},
          second \in SUBSET {"Bucket", "Role", "Func"},
          role_es \in {es \in CfnEntrySets : Cardinality(es) <= 1},
          func_es \in CfnEntrySets,
          untyped \in SUBSET {"Bucket"} :
         /\ second \subseteq names
         /\ untyped \subseteq names
         /\ "Role" \notin names => role_es = {}
         /\ "Func" \notin names => func_es = {}
         /\ LET body == [id \in {CId(n) : n \in names} |->
                            IF id.dots[1] \in untyped
                            THEN WithoutType(CfnBody(id.dots[1], {}))
                            ELSE CfnBody(id.dots[1],
                                    IF id = CId("Role") THEN role_es
                                    ELSE IF id = CId("Func") THEN func_es
                                    ELSE {})]
                first == {CId(n) : n \in names \ second}
                rest == {CId(n) : n \in second}
            IN  load = [templates |->
                           IF second = {} THEN <<CfnTemplate(first, body)>>
                           ELSE <<CfnTemplate(first, body),
                                  CfnTemplate(rest, body)>>]
    /\ pc = "start"
    /\ resources = EmptyMap
    /\ module_ref_maps = EmptyMap
    /\ env_ref_maps = EmptyMap
    /\ direct_edges = {}
    /\ edges = {}
    /\ fallback_ran = FALSE
    /\ InitCallers

\* Lines 3722-3734: collect the resources; none at all raises.
LoadCloudFormation ==
    /\ fmt = "cloudformation"
    /\ pc = "start"
    /\ resources' = CfnResourcesFrom(load.templates, 1, EmptyMap)
    /\ pc' = IF DOMAIN resources' = {} THEN "raised" ELSE "loaded"
    /\ UNCHANGED callerVars
    /\ UNCHANGED <<fmt, load, module_ref_maps, env_ref_maps, direct_edges,
                   edges, fallback_ran>>

\* Lines 3736-3748: the edges; they are returned as they are.
BuildCloudFormationEdges ==
    /\ fmt = "cloudformation"
    /\ pc = "loaded"
    /\ direct_edges' = CfnEdges(resources)
    /\ edges' = direct_edges'
    /\ pc' = "done"
    /\ UNCHANGED callerVars
    /\ UNCHANGED <<fmt, load, resources, module_ref_maps, env_ref_maps,
                   fallback_ran>>

NextCloudFormation ==
    \/ LoadCloudFormation
    \/ BuildCloudFormationEdges

SpecCloudFormation == InitCloudFormation /\ [][NextCloudFormation]_vars

(***************************************************************************)
(* Pulumi YAML.  Strings are [dots, subs] as for CloudFormation; a         *)
(* resource name is a string of one segment and no placeholder.            *)
(***************************************************************************)
\* m.group(1) of every match of \$\{([A-Za-z0-9_-]+)\.[^\}]+\} in a string:
\* a placeholder without ".property" does not match.
PulumiSubRefs(str) ==
    {CId(str.subs[i][1]) : i \in {j \in 1..Len(str.subs) : Len(str.subs[j]) >= 2}}

RECURSIVE PulumiYamlExtractRefs(_)
PulumiYamlExtractRefs(value) ==
    IF value.k = "map"
    THEN UNION {PulumiYamlExtractRefs(value.v[key]) : key \in DOMAIN value.v}
    ELSE IF value.k = "list"
    THEN UNION {PulumiYamlExtractRefs(value.v[i]) : i \in 1..Len(value.v)}
    ELSE IF value.k = "str" THEN PulumiSubRefs(value.v)
    ELSE {}

RECURSIVE PulumiResourcesFrom(_, _, _)
\* Lines 3858-3874: {name: {Type, Provider, Kind, Body}} over all stacks.
PulumiResourcesFrom(stacks, i, acc) ==
    IF i > Len(stacks) THEN acc
    ELSE LET r == GetV(stacks[i], "resources")
             admitted == IF r.k = "map"
                         THEN {n \in DOMAIN r.v : r.v[n].k = "map"} ELSE {}
         IN  PulumiResourcesFrom(stacks, i + 1,
                 [n \in (DOMAIN acc) \cup admitted |->
                     IF n \in admitted
                     THEN [Type |-> GetV(r.v[n], "type"), Kind |-> "pulumi",
                           Body |-> r.v[n]]
                     ELSE acc[n]])

\* The references of one resource: properties plus options.dependsOn.
PulumiRefsOfBody(b) ==
    LET options == GetV(b, "options")
        depends_on == IF options.k = "map" THEN GetV(options, "dependsOn")
                      ELSE NoneV
    IN  PulumiYamlExtractRefs(GetV(b, "properties"))
        \cup (IF depends_on.k = "str" THEN {depends_on.v}
              ELSE IF depends_on.k = "list"
              THEN {depends_on.v[i].v :
                      i \in {j \in 1..Len(depends_on.v) : depends_on.v[j].k = "str"}}
              ELSE {})

\* "if ref in resources and ref != name" of _static_pulumi_yaml_graph.
PulumiKeepsEdge(ref, name, all_resources) ==
    ref \in DOMAIN all_resources /\ ref # name

PulumiEdges(all_resources) ==
    UNION {{<<ref, name>> :
              ref \in {r \in PulumiRefsOfBody(all_resources[name].Body) :
                          PulumiKeepsEdge(r, name, all_resources)}} :
           name \in DOMAIN all_resources}

\* "${x.id}" and "${x}"
PulumiProp(x) == Str(CStr(<<"${" \o x, "id}">>, << <<x, "id">> >>))

PulumiBare(x) == Str(CStr(<<"${" \o x \o "}">>, << <<x>> >>))

PulumiEntryPool ==
    {[key |-> "networkId", val |-> PulumiProp("net")],
     [key |-> "networkId", val |-> PulumiBare("net")],
     [key |-> "subnetId", val |-> PulumiProp("sub")],
     [key |-> "selfLink", val |-> PulumiProp("vm")],
     [key |-> "imageId", val |-> PulumiProp("image")],
     [key |-> "dependsOn", val |-> Str(CId("net"))],
     [key |-> "dependsOn", val |-> Lst(<<Str(CId("net")), Str(CId("sub"))>>)]}

MaxPulumiEntries == 2

PulumiEntrySets ==
    {es \in SUBSET PulumiEntryPool :
        /\ Cardinality(es) <= MaxPulumiEntries
        /\ \A e1, e2 \in es : e1.key = e2.key => e1 = e2}

PulumiTypes == [net |-> "aws:ec2:Vpc", sub |-> "aws:ec2:Subnet",
                vm |-> "aws:ec2:Instance"]

PulumiBody(name, es) ==
    LET props == {e \in es : e.key # "dependsOn"}
        deps == {e \in es : e.key = "dependsOn"}
        base == [type |-> Str(CStr(<<PulumiTypes[name]>>, <<>>)),
                 properties |->
                     Map([key \in {"name"} \cup {e.key : e \in props} |->
                             IF key = "name" THEN Str(CId(name))
                             ELSE (CHOOSE e \in props : e.key = key).val])]
    IN  Map(IF deps = {} THEN base
            ELSE Put(base, "options",
                     Map([key \in {"dependsOn"} |->
                             (CHOOSE e \in deps : TRUE).val])))

InitPulumi ==
    /\ fmt = "pulumi"
    /\ \E names \in SUBSET {"net", "sub", "vm"},
          sub_es \in {es \in PulumiEntrySets : Cardinality(es) <= 1},
          vm_es \in PulumiEntrySets :
         /\ "sub" \notin names => sub_es = {}
         /\ "vm" \notin names => vm_es = {}
         /\ load = [stacks |->
                      <<Map([key \in {"resources"} |->
                               Map([id \in {CId(n) : n \in names} |->
                                      PulumiBody(id.dots[1],
                                          IF id = CId("sub") THEN sub_es
                                          ELSE IF id = CId("vm") THEN vm_es
                                          ELSE {})])])>>]
    /\ pc = "start"
    /\ resources = EmptyMap
    /\ module_ref_maps = EmptyMap
    /\ env_ref_maps = EmptyMap
    /\ direct_edges = {}
    /\ edges = {}
    /\ fallback_ran = FALSE
    /\ InitCallers

\* Lines 3852-3877: collect the resources; none at all raises.
LoadPulumi ==
    /\ fmt = "pulumi"
    /\ pc = "start"
    /\ resources' = PulumiResourcesFrom(load.stacks, 1, EmptyMap)
    /\ pc' = IF DOMAIN resources' = {} THEN "raised" ELSE "loaded"
    /\ UNCHANGED callerVars
    /\ UNCHANGED <<fmt, load, module_ref_maps, env_ref_maps, direct_edges,
                   edges, fallback_ran>>

\* Lines 3879-3898: the edges; they are returned as they are.
BuildPulumiEdges ==
    /\ fmt = "pulumi"
    /\ pc = "loaded"
    /\ direct_edges' = PulumiEdges(resources)
    /\ edges' = direct_edges'
    /\ pc' = "done"
    /\ UNCHANGED callerVars
    /\ UNCHANGED <<fmt, load, resources, module_ref_maps, env_ref_maps,
                   fallback_ran>>

NextPulumi ==
    \/ LoadPulumi
    \/ BuildPulumiEdges

SpecPulumi == InitPulumi /\ [][NextPulumi]_vars

(***************************************************************************)
(* Bicep.  The scanner reads a file line by line; a line is the record of  *)
(* what the scanner's tests see in its text:                               *)
(*   decl          symbol of a "resource <sym> '<type>@<api>'" line, None  *)
(*   type          the text before "@" in the quoted type, None            *)
(*   opens, closes the numbers of "{" and of "}" in the line               *)
(*   starts_close  the stripped line starts with "}"                       *)
(*   parent        first identifier after "parent:", None if no such line  *)
(*   depends_open  the line matches ^\s*dependsOn\s*:\s*\[                 *)
(*   idents        the identifiers of the line (sym_ref_re.findall)        *)
(*   rbracket      the line contains "]"                                   *)
(***************************************************************************)
BLine(decl, opens, closes, starts_close, parent, depends_open, idents, rbracket) ==
    [decl |-> decl,
     type |-> IF decl = None THEN None ELSE "Microsoft.Network/" \o decl,
     opens |-> opens, closes |-> closes, starts_close |-> starts_close,
     parent |-> parent, depends_open |-> depends_open, idents |-> idents,
     rbracket |-> rbracket]

\* resource <sym> 'Microsoft.Network/<sym>@2021-02-01' = {
BDecl(sym) ==
    BLine(sym, 1, 0, FALSE, None, FALSE,
          {"resource", sym, "Microsoft", "Network"}, FALSE)

\* resource <sym> 'Microsoft.Network/<sym>@2021-02-01' existing = { name: 'example' }
BDeclInline(sym) ==
    BLine(sym, 1, 1, FALSE, None, FALSE,
          {"resource", sym, "Microsoft", "Network", "existing", "name",
           "example"}, FALSE)

\* module deploy './deploy.bicep' = {
BModuleOpen ==
    BLine(None, 1, 0, FALSE, None, FALSE, {"module", "deploy", "bicep"}, FALSE)

\*   parent: <p>
BParent(p) == BLine(None, 0, 0, FALSE, p, FALSE, {"parent", p}, FALSE)

\*   dependsOn: [ <a>, <b> ]
BDependsOneLine(deps) ==
    BLine(None, 0, 0, FALSE, None, TRUE, {"dependsOn"} \cup deps, TRUE)

\*   dependsOn: [
BDependsOpen == BLine(None, 0, 0, FALSE, None, TRUE, {"dependsOn"}, FALSE)

\*     <x>
BIdent(x) == BLine(None, 0, 0, FALSE, None, FALSE, {x}, FALSE)

\*   ]
BRBracket == BLine(None, 0, 0, FALSE, None, FALSE, {}, TRUE)

\*   name: 'example'
BName == BLine(None, 0, 0, FALSE, None, FALSE, {"name", "example"}, FALSE)

\* }
BClose == BLine(None, 0, 1, TRUE, None, FALSE, {}, FALSE)

\* "if ref in resources and ref != current_sym" (parent and dependsOn alike).
BicepKeepsEdge(ref, current_sym, declared) ==
    ref \in DOMAIN declared /\ ref # current_sym

\* One iteration of "for line in lines" on the scanner state st.
BicepScanLine(st, line) ==
    LET is_decl == line.decl # None
        sym1 == IF is_decl THEN line.decl ELSE st.current_sym
        res1 == IF is_decl
                THEN Put(st.resources, line.decl,
                         [Type |-> line.type, Provider |-> "azure",
                          Kind |-> "bicep"])
                ELSE st.resources
        depth1 == (IF is_decl THEN 0 ELSE st.bracket_depth)
                  + line.opens - line.closes
        closing == sym1 # None /\ depth1 <= 0 /\ line.starts_close
        parent_edges ==
            IF line.parent # None /\ BicepKeepsEdge(line.parent, sym1, res1)
            THEN {<<line.parent, sym1>>} ELSE {}
        in_dep1 == st.in_depends \/ line.depends_open
        depends_edges ==
            IF in_dep1
            THEN {<<ref, sym1>> :
                    ref \in {r \in line.idents : BicepKeepsEdge(r, sym1, res1)}}
            ELSE {}
    IN  IF closing
        THEN [resources |-> res1, edges |-> st.edges, current_sym |-> None,
              bracket_depth |-> depth1, in_depends |-> st.in_depends]
        ELSE IF sym1 = None
        THEN [resources |-> res1, edges |-> st.edges, current_sym |-> None,
              bracket_depth |-> depth1, in_depends |-> st.in_depends]
        ELSE [resources |-> res1,
              edges |-> st.edges \cup parent_edges \cup depends_edges,
              current_sym |-> sym1, bracket_depth |-> depth1,
              in_depends |-> in_dep1 /\ ~line.rbracket]

\* "for line in lines", from line i on.  The lines are read in their order,
\* the first half of a stretch before its second half, and the state after
\* the first half is bound as a value before the second half is read: the
\* scan of n lines nests about log2(n) scans, not n.
BicepScanLines(st, lines, i) ==
    LET RECURSIVE ScanRange(_, _, _)
        ScanRange(s, lo, hi) ==
            IF lo > hi THEN s
            ELSE IF lo = hi THEN BicepScanLine(s, lines[lo])
            ELSE CHOOSE last \in
                     {ScanRange(half, ((lo + hi) \div 2) + 1, hi) :
                        half \in {ScanRange(s, lo, (lo + hi) \div 2)}} : TRUE
    IN  ScanRange(st, i, Len(lines))

RECURSIVE BicepScanFiles(_, _, _)
\* "for f in files": the resources and edges accumulate over the files, the
\* scanner's position (current_sym, bracket_depth, in_depends) starts afresh.
BicepScanFiles(acc, files, i) ==
    IF i > Len(files) THEN acc
    ELSE CHOOSE last \in
             {BicepScanFiles([resources |-> st.resources, edges |-> st.edges],
                             files, i + 1) :
                st \in {BicepScanLines(
                            [resources |-> acc.resources, edges |-> acc.edges,
                             current_sym |-> None, bracket_depth |-> 0,
                             in_depends |-> FALSE],
                            files[i], 1)}} : TRUE

StaticBicepGraph(files) ==
    BicepScanFiles([resources |-> EmptyMap, edges |-> {}], files, 1)

(***************************************************************************)
(* The Bicep loads of the model: one file of at most MaxBicepBlocks        *)
(* resource declarations of distinct symbols, each either written on one   *)
(* line or as a block with an optional parent line and an optional         *)
(* dependsOn block on one or on several lines, and at most one module      *)
(* block with a dependsOn line after one of the declarations.              *)
(***************************************************************************)
MaxBicepBlocks == 3

BicepSymbols == {"vnet", "subnet", "nic"}

BicepDepends(kind) ==
    CASE kind = "none" -> <<>>
      [] kind = "one_line" -> <<BDependsOneLine({"vnet"})>>
      [] kind = "multi_line" ->
            <<BDependsOpen, BIdent("subnet"), BIdent("nic"), BRBracket>>

BicepBlock(sym, parent, depends) ==
    <<BDecl(sym), BName>>
    \o (IF parent = None THEN <<>> ELSE <<BParent(parent)>>)
    \o BicepDepends(depends)
    \o <<BClose>>

BicepModuleBlock ==
    <<BModuleOpen, BName, BDependsOneLine({"vnet"}), BClose>>

RECURSIVE BicepFile(_, _)
\* The lines of the file written as w, from its i-th declaration on.
BicepFile(w, i) ==
    IF i > Len(w.order) THEN <<>>
    ELSE (IF w.order[i] \in w.inline
          THEN <<BDeclInline(w.order[i])>>
          ELSE BicepBlock(w.order[i], w.parent[w.order[i]],
                          w.depends[w.order[i]]))
         \o (IF w.module_after = i THEN BicepModuleBlock ELSE <<>>)
         \o BicepFile(w, i + 1)

BicepOrders ==
    {order \in UNION {[1..n -> BicepSymbols] : n \in 1..MaxBicepBlocks} :
        \A i, j \in 1..Len(order) : i # j => order[i] # order[j]}

InitBicep ==
    /\ fmt = "bicep"
    /\ \E order \in BicepOrders :
         \E parent \in [{order[i] : i \in 1..Len(order)} -> {None, "vnet", "nic"}],
            depends \in [{order[i] : i \in 1..Len(order)} ->
                           {"none", "one_line", "multi_line"}],
            inline \in SUBSET {order[i] : i \in 1..Len(order)},
            module_after \in 0..Len(order) :
            /\ \A sym \in inline : parent[sym] = None /\ depends[sym] = "none"
            /\ \E w \in {[order |-> order, parent |-> parent,
                           depends |-> depends, inline |-> inline,
                           module_after |-> module_after]} :
                 load = [files |-> <<BicepFile(w, 1)>>, written |-> w]
    /\ pc = "start"
    /\ resources = EmptyMap
    /\ module_ref_maps = EmptyMap
    /\ env_ref_maps = EmptyMap
    /\ direct_edges = {}
    /\ edges = {}
    /\ fallback_ran = FALSE
    /\ InitCallers

\* Lines 3767-3818: scan every file.
ScanBicep ==
    /\ fmt = "bicep"
    /\ pc = "start"
    /\ \E g \in {StaticBicepGraph(load.files)} :
         /\ resources' = g.resources
         /\ direct_edges' = g.edges
         /\ edges' = g.edges
    /\ pc' = "scanned"
    /\ UNCHANGED callerVars
    /\ UNCHANGED <<fmt, load, module_ref_maps, env_ref_maps, fallback_ran>>

\* Lines 3820-3822: no resource raises, else the graph is returned.
ReturnBicep ==
    /\ fmt = "bicep"
    /\ pc = "scanned"
    /\ pc' = IF DOMAIN resources = {} THEN "raised" ELSE "done"
    /\ UNCHANGED callerVars
    /\ UNCHANGED <<fmt, load, resources, module_ref_maps, env_ref_maps,
                   direct_edges, edges, fallback_ran>>

NextBicep ==
    \/ ScanBicep
    \/ ReturnBicep

SpecBicep == InitBicep /\ [][NextBicep]_vars

(***************************************************************************)
(* All four graph functions.                                               *)
(***************************************************************************)
Init ==
    \/ InitTerraform
    \/ InitCloudFormation
    \/ InitBicep
    \/ InitPulumi

Next ==
    \/ LoadTerraform
    \/ BuildTerraformEdges
    \/ FallbackChain
    \/ ReturnEdges
    \/ LoadCloudFormation
    \/ BuildCloudFormationEdges
    \/ ScanBicep
    \/ ReturnBicep
    \/ LoadPulumi
    \/ BuildPulumiEdges

Spec == Init /\ [][Next]_vars

(***************************************************************************)
(* Repeated runs of a graph builder on one resource map.  A run starts     *)
(* from "edges = set()" and visits the items of the resource map one after *)
(* the other; the order of the visit is an argument here, so that every    *)
(* iteration order of the map is a behaviour.  Inside one visit the code   *)
(* walks sorted(refs), which fixes that order whatever the set's own.      *)
(***************************************************************************)
MaxRuns == 2

\* The sequences that enumerate the set S once.
Orders(S) ==
    {f \in [1..Cardinality(S) -> S] :
        \A i, j \in 1..Cardinality(S) : i # j => f[i] # f[j]}

\* Lines 3385-3401 for one res: its kept edges join the set built so far.
AddEdgesOf(acc, res, all_resources, mmaps, emaps) ==
    acc \cup {<<ref, res>> :
                ref \in {r \in RemappedRefs(res, all_resources[res], mmaps, emaps) :
                            KeepsEdge(r, res, all_resources)}}

RECURSIVE EdgesInOrder(_, _, _, _, _)
\* Lines 3383-3401 with the items visited in the given order.
EdgesInOrder(acc, order, all_resources, mmaps, emaps) ==
    IF order = <<>> THEN acc
    ELSE EdgesInOrder(AddEdgesOf(acc, Head(order), all_resources, mmaps, emaps),
                      Tail(order), all_resources, mmaps, emaps)

\* Lines 3383-3406: the edges one run of _static_terraform_graph returns.
TerraformGraphInOrder(order, all_resources, mmaps, emaps) ==
    LET e == EdgesInOrder({}, order, all_resources, mmaps, emaps)
    IN  IF FallbackNeeded(e) THEN FallbackChainEdges(all_resources) ELSE e

\* A visit that keeps only the edges of the first resource that has any.
CfnAddEdgesOf_FirstWins(acc, rid, all_resources) ==
    IF acc # {} THEN acc
    ELSE {<<ref, rid>> :
            ref \in {r \in CfnRefsOfBody(all_resources[rid]) :
                        CfnKeepsEdge(r, rid, all_resources)}}

\* Lines 3738-3746 for one rid: its kept edges join the set built so far.
CfnAddEdgesOf(acc, rid, all_resources) ==
    acc \cup {<<ref, rid>> :
                ref \in {r \in CfnRefsOfBody(all_resources[rid]) :
                            CfnKeepsEdge(r, rid, all_resources)}}

RECURSIVE CfnEdgesInOrder(_, _, _)
\* Lines 3736-3748 with the items visited in the given order.
CfnEdgesInOrder(acc, order, all_resources) ==
    IF order = <<>> THEN acc
    ELSE CfnEdgesInOrder(CfnAddEdgesOf(acc, Head(order), all_resources),
                         Tail(order), all_resources)

\* One more run of lines 3383-3406 on the loaded resource map.
RunTerraformGraph ==
    /\ fmt = "terraform"
    /\ pc = "loaded"
    /\ Len(runs) < MaxRuns
    /\ \E order \in Orders(DOMAIN resources) :
          runs' = Append(runs, TerraformGraphInOrder(order, resources,
                                   module_ref_maps, env_ref_maps))
    /\ UNCHANGED <<fmt, load, pc, resources, module_ref_maps, env_ref_maps,
                   direct_edges, edges, fallback_ran>>
    /\ UNCHANGED <<hierarchy, selected, attempted, files_read,
                   out_md, out_mmd, exit_code>>

\* One more run of lines 3736-3748 on the loaded resource map.
RunCloudFormationGraph ==
    /\ fmt = "cloudformation"
    /\ pc = "loaded"
    /\ Len(runs) < MaxRuns
    /\ \E order \in Orders(DOMAIN resources) :
          runs' = Append(runs, CfnEdgesInOrder({}, order, resources))
    /\ UNCHANGED <<fmt, load, pc, resources, module_ref_maps, env_ref_maps,
                   direct_edges, edges, fallback_ran>>
    /\ UNCHANGED <<hierarchy, selected, attempted, files_read,
                   out_md, out_mmd, exit_code>>

InitRepeat == InitTerraform \/ InitCloudFormation

NextRepeat ==
    \/ LoadTerraform
    \/ LoadCloudFormation
    \/ RunTerraformGraph
    \/ RunCloudFormationGraph

SpecRepeat == InitRepeat /\ [][NextRepeat]_vars

(***************************************************************************)
(* main in static mode, and _static_markdown.                              *)
(*                                                                         *)
(* The repository of these runs is fixed: two Terraform files (one         *)
(* declaring a VPC and a subnet and including the local module net, whose  *)
(* directory holds two files; one declaring nothing), two CloudFormation   *)
(* templates (one with resources, one without), a Bicep file, a Pulumi     *)
(* stack and a README.  --changed-files is any list of at most MaxChanged  *)
(* of these paths or of a path that leaves the root, and limits.max_files  *)
(* any number from 1 to MaxLimit.  A text is the sequence of its parts,    *)
(* the empty text the empty sequence.                                      *)
(***************************************************************************)
MaxChanged == 3
MaxLimit == 3

COMMENT_MARKER == "<!-- auto-arch-diagram -->"

RepoTerraform ==
    [path \in {<<"terraform", "dev", "main.tf">>,
               <<"terraform", "prod", "main.tf">>} |->
        IF path[2] = "dev"
        THEN [path |-> path,
              resource |-> <<Block("vpc", "plain"), Block("subnet", "attr")>>,
              module |-> <<[name |-> "net", source |-> ModuleSource]>>]
        ELSE [path |-> path, resource |-> <<>>, module |-> <<>>]]

RepoModules ==
    [d \in {ModuleDir} |->
        <<[path |-> ModuleDir \o <<"main.tf">>,
           resource |-> <<Block("vpc", "plain")>>, module |-> <<>>],
          [path |-> ModuleDir \o <<"net.tf">>,
           resource |-> <<Block("subnet", "attr")>>, module |-> <<>>]>>]

RepoCloudFormation ==
    [path \in {<<"stack.cfn.json">>, <<"template.yaml">>} |->
        IF path = <<"stack.cfn.json">>
        THEN CfnTemplate({CId("Role"), CId("Func")},
                 [id \in {CId("Role"), CId("Func")} |->
                     CfnBody(id.dots[1],
                         IF id = CId("Func")
                         THEN {[key |-> "Role", val |-> GetAttList("Role", <<"Arn">>)]}
                         ELSE {})])
        ELSE Map([key \in {"Description"} |-> PlainText])]

RepoBicep ==
    [path \in {<<"main.bicep">>} |->
        BicepBlock("vnet", None, "none") \o BicepBlock("subnet", "vnet", "none")]

RepoPulumi ==
    [path \in {<<"Pulumi.yaml">>} |->
        Map([key \in {"resources"} |->
               Map([id \in {CId("net"), CId("sub")} |->
                      PulumiBody(id.dots[1],
                          IF id = CId("sub")
                          THEN {[key |-> "networkId", val |-> PulumiProp("net")]}
                          ELSE {})])])]

ChangedPool ==
    (DOMAIN RepoTerraform) \cup (DOMAIN RepoCloudFormation)
    \cup (DOMAIN RepoBicep) \cup (DOMAIN RepoPulumi)
    \cup {<<"README.md">>, <<"..", "secrets.tf">>}

\* The members of paths that a loader's file-name test lets through, in
\* the order of paths, as that loader parses them.
Accepted(paths, repo) ==
    LET kept == SelectSeq(paths, LAMBDA q : q \in DOMAIN repo)
    IN  [n \in 1..Len(kept) |-> repo[kept[n]]]

\* _safe_path_under: the path below the root, NoDir if rel leaves the root.
SafePathUnder(rel) == ResolvePath(<<>>, rel)

\* changed_files[: limits.max_files], then the entries that are safe.
SelectChanged(changed_files, max_files) ==
    SelectSeq(SubSeq(changed_files, 1,
                     IF max_files < Len(changed_files) THEN max_files
                     ELSE Len(changed_files)),
              LAMBDA rel : SafePathUnder(rel) # NoDir)

\* The files _terraform_resources_from_files passes to _read_file_limited:
\* every input file, and every file of every module directory it resolves.
TerraformFilesRead(files, fs) ==
    {files[i].path : i \in 1..Len(files)}
    \cup UNION {UNION {{fs[d][k].path : k \in 1..Len(fs[d])} :
                  d \in {ResolveLocalModuleDir(m.source, Parent(files[i].path), fs) :
                           m \in {TerraformModulesFromHcl(files[i])[n] :
                                    n \in 1..Len(TerraformModulesFromHcl(files[i]))}}
                        \ {NoDir}} :
                i \in 1..Len(files)}

\* What one format's try block of _static_markdown comes to for the given
\* paths: whether it raised (and with which message), else its graph, and
\* the files it read.
TryFormat(format, paths) ==
    CASE format = "terraform" ->
           LET files == Accepted(paths, RepoTerraform)
               r == TerraformResourcesFromFiles(files, RepoModules)
               e == TerraformDirectEdges(r.resources, r.module_ref_maps,
                                         r.env_ref_maps)
           IN  [raised |-> DOMAIN r.resources = {},
                reason |-> "No Terraform resources parsed from the changed files.",
                resources |-> r.resources,
                edges |-> IF FallbackNeeded(e)
                          THEN FallbackChainEdges(r.resources) ELSE e,
                read |-> TerraformFilesRead(files, RepoModules)]
      [] format = "cloudformation" ->
           LET templates == Accepted(paths, RepoCloudFormation)
               r == CfnResourcesFrom(templates, 1, EmptyMap)
           IN  [raised |-> DOMAIN r = {},
                reason |-> IF templates = <<>>
                           THEN "No CloudFormation templates parsed from the changed files."
                           ELSE "No CloudFormation Resources found in parsed templates.",
                resources |-> r,
                edges |-> CfnEdges(r),
                read |-> {q \in DOMAIN RepoCloudFormation :
                            \E n \in 1..Len(paths) : paths[n] = q}]
      [] format = "bicep" ->
           LET g == StaticBicepGraph(Accepted(paths, RepoBicep))
           IN  [raised |-> DOMAIN g.resources = {},
                reason |-> "No Bicep resources parsed from the changed files.",
                resources |-> g.resources,
                edges |-> g.edges,
                read |-> {q \in DOMAIN RepoBicep :
                            \E n \in 1..Len(paths) : paths[n] = q}]
      [] format = "pulumi" ->
           LET stacks == Accepted(paths, RepoPulumi)
               r == PulumiResourcesFrom(stacks, 1, EmptyMap)
           IN  [raised |-> DOMAIN r = {},
                reason |-> IF stacks = <<>>
                           THEN "No Pulumi YAML stacks parsed from the changed files."
                           ELSE "No Pulumi resources found in parsed YAML stacks.",
                resources |-> r,
                edges |-> PulumiEdges(r),
                read |-> {q \in DOMAIN RepoPulumi :
                            \E n \in 1..Len(paths) : paths[n] = q}]

\* An order that tries CloudFormation before Terraform.
FormatOrder_CloudFormationFirst ==
    <<"cloudformation", "terraform", "bicep", "pulumi">>

\* The order of the nested try blocks of _static_markdown.
FormatOrder == <<"terraform", "cloudformation", "bicep", "pulumi">>

\* A fallback document that lacks the marker line.
FallbackMarkdown_NoMarker(changed_files, reason) ==
    [marker |-> "",
     summary |-> "Unable to generate diagram automatically.",
     reason |-> <<reason>>,
     files |-> changed_files,
     mermaid |-> <<>>]

\* _fallback_markdown
FallbackMarkdown(changed_files, reason) ==
    [marker |-> COMMENT_MARKER,
     summary |-> "Unable to generate diagram automatically.",
     reason |-> <<reason>>,
     files |-> changed_files,
     mermaid |-> <<>>]

\* The Mermaid text of one format's graph: its nodes and its arrows.
MermaidOf(format, res, e) ==
    <<[format |-> format, nodes |-> DOMAIN res, arrows |-> e]>>

\* The document _static_markdown composes around a Mermaid text.
DiagramMarkdown(mermaid) ==
    [marker |-> COMMENT_MARKER,
     summary |-> "Generated a diagram from changed resources.",
     reason |-> <<>>,
     files |-> <<>>,
     mermaid |-> mermaid]

InitMain ==
    /\ fmt = None
    /\ \E changed_files \in UNION {[1..n -> ChangedPool] : n \in 0..MaxChanged},
          max_files \in 1..MaxLimit :
         load = [changed_files |-> changed_files, max_files |-> max_files]
    /\ pc = "main"
    /\ resources = EmptyMap
    /\ module_ref_maps = EmptyMap
    /\ env_ref_maps = EmptyMap
    /\ direct_edges = {}
    /\ edges = {}
    /\ fallback_ran = FALSE
    /\ InitCallers

\* Lines 4714-4725: nothing changed.
MainNoChanges ==
    /\ pc = "main"
    /\ load.changed_files = <<>>
    /\ out_md' = FallbackMarkdown(<<>>, "No IaC file changes detected.")
    /\ out_mmd' = <<>>
    /\ exit_code' = 0
    /\ pc' = "exit"
    /\ UNCHANGED <<fmt, load, resources, module_ref_maps, env_ref_maps,
                   direct_edges, edges, fallback_ran>>
    /\ UNCHANGED <<runs, hierarchy, selected, attempted, files_read>>

\* Lines 4727-4750: truncate, sanitize; nothing left writes the fallback.
MainSelect ==
    /\ pc = "main"
    /\ load.changed_files # <<>>
    /\ selected' = SelectChanged(load.changed_files, load.max_files)
    /\ IF selected' = <<>>
       THEN /\ out_md' = FallbackMarkdown(<<>>,
                             "No valid IaC file paths after sanitization.")
            /\ out_mmd' = <<>>
            /\ exit_code' = 0
            /\ pc' = "exit"
       ELSE /\ pc' = "try"
            /\ UNCHANGED <<out_md, out_mmd, exit_code>>
    /\ UNCHANGED <<fmt, load, resources, module_ref_maps, env_ref_maps,
                   direct_edges, edges, fallback_ran>>
    /\ UNCHANGED <<runs, hierarchy, attempted, files_read>>

\* Lines 4333-4359: the next try block in the order; it either yields the
\* diagram or is abandoned.
TryNextFormat ==
    /\ pc = "try"
    /\ Len(attempted) < Len(FormatOrder)
    /\ LET format == FormatOrder[Len(attempted) + 1]
       IN  \E t \in {TryFormat(format, selected)} :
             /\ attempted' = Append(attempted, format)
             /\ files_read' = files_read \cup t.read
             /\ IF t.raised
                THEN UNCHANGED <<fmt, resources, edges, pc>>
                ELSE /\ fmt' = format
                     /\ resources' = t.resources
                     /\ edges' = t.edges
                     /\ pc' = "matched"
    /\ UNCHANGED <<load, module_ref_maps, env_ref_maps, direct_edges,
                   fallback_ran>>
    /\ UNCHANGED <<runs, hierarchy, selected, out_md, out_mmd, exit_code>>

\* Lines 4360-4368 and 4752-4762: every try block raised; the fallback
\* document carries the message of the CloudFormation attempt.
MainNoFormat ==
    /\ pc = "try"
    /\ Len(attempted) = Len(FormatOrder)
    /\ out_md' = FallbackMarkdown(selected,
                     TryFormat("cloudformation", selected).reason)
    /\ out_mmd' = <<>>
    /\ exit_code' = 0
    /\ pc' = "exit"
    /\ UNCHANGED <<fmt, load, resources, module_ref_maps, env_ref_maps,
                   direct_edges, edges, fallback_ran>>
    /\ UNCHANGED <<runs, hierarchy, selected, attempted, files_read>>

\* Lines 4492-4500 and 4752-4773: the document of the matched format.
MainWrite ==
    /\ pc = "matched"
    /\ out_md' = DiagramMarkdown(MermaidOf(fmt, resources, edges))
    /\ out_mmd' = MermaidOf(fmt, resources, edges)
    /\ exit_code' = 0
    /\ pc' = "exit"
    /\ UNCHANGED <<fmt, load, resources, module_ref_maps, env_ref_maps,
                   direct_edges, edges, fallback_ran>>
    /\ UNCHANGED <<runs, hierarchy, selected, attempted, files_read>>

NextMain ==
    \/ MainNoChanges
    \/ MainSelect
    \/ TryNextFormat
    \/ MainNoFormat
    \/ MainWrite

SpecMain == InitMain /\ [][NextMain]_vars

(***************************************************************************)
(* _build_vpc_hierarchy, applied to the graph of a Terraform load.  The    *)
(* edge set is a Python set and the resource map a dict: the order in      *)
(* which each is walked is a parameter.                                    *)
(***************************************************************************)
\* The words the type tests look for, per resource type of the model.
TypeWords(r_type) ==
    CASE r_type = "aws_vpc" -> {"vpc"}
      [] r_type = "aws_subnet" -> {"subnet"}
      [] OTHER -> {}

\* _is_vpc_or_network
IsVpcOrNetwork(r_type) ==
    /\ TypeWords(r_type) \cap {"vpc", "vnet", "vcn", "virtual_network"} # {}
    /\ TypeWords(r_type) \cap {"subnet", "interface"} = {}

\* A subnet test that accepts no type.
IsSubnet_Never(r_type) == FALSE

\* _is_subnet
IsSubnet(r_type) == "subnet" \in TypeWords(r_type)

\* The key "other" of a VPC's entry, in the shape of a resource id.
Other == <<"other", <<>>>>

\* The references of the last of the keys whose value names a member of
\* targets (each later key overwrites the result of an earlier one).
\* The attribute scan left out: nothing is found under any key.
RefUnderKeys_None(attrs, keys, strings_only, targets) == {}

RefUnderKeys(attrs, keys, strings_only, targets) ==
    LET found(key) ==
            IF key \in DOMAIN attrs /\ (strings_only => attrs[key].k = "str")
            THEN ExtractTfRefsOfValue(attrs[key]) \cap targets
            ELSE {}
        hits == {i \in 1..Len(keys) : found(keys[i]) # {}}
    IN  IF hits = {} THEN {}
        ELSE found(keys[CHOOSE i \in hits : \A j \in hits : j <= i])

\* "for ref in refs: if ref in targets: ... break": the member of the set
\* S that the iteration order of the reference set meets first.
FirstIn(ref_order, S) ==
    ref_order[Min({i \in 1..Len(ref_order) : ref_order[i] \in S})]

\* A dict as its keys in insertion order and its values.
PutOrdered(m, k, v) ==
    [keys |-> IF k \in DOMAIN m.val THEN m.keys ELSE Append(m.keys, k),
     val |-> Put(m.val, k, v)]

BuildVpcHierarchy(all_resources, res_order, edge_order, ref_order) ==
    LET ids == DOMAIN all_resources
        vpcs == {r \in ids : IsVpcOrNetwork(r[1])}
        subnets == {r \in ids : ~IsVpcOrNetwork(r[1]) /\ IsSubnet(r[1])}
        plain(r) == r \notin vpcs /\ r \notin subnets
        RECURSIVE VpcFromEdges(_, _)
        \* Lines 1745-1749
        VpcFromEdges(acc, i) ==
            IF i > Len(edge_order) THEN acc
            ELSE LET src == edge_order[i][1]
                     dst == edge_order[i][2]
                 IN  VpcFromEdges(
                         IF src \in vpcs /\ dst \in subnets
                         THEN Put(acc, dst, src)
                         ELSE IF dst \in vpcs /\ src \in subnets
                              THEN Put(acc, src, dst)
                              ELSE acc,
                         i + 1)
        from_edges == VpcFromEdges(EmptyMap, 1)
        \* Lines 1752-1768
        vpc_ref(s) ==
            RefUnderKeys(all_resources[s],
                         <<"vpc_id", "virtual_network_name", "vcn_id">>,
                         TRUE, vpcs)
        subnet_to_vpc ==
            [s \in (DOMAIN from_edges)
                     \cup {s \in subnets : vpc_ref(s) # {}} |->
                IF s \in DOMAIN from_edges THEN from_edges[s]
                ELSE FirstIn(ref_order, vpc_ref(s))]
        RECURSIVE SubnetFromEdges(_, _)
        \* Lines 1771-1776
        SubnetFromEdges(acc, i) ==
            IF i > Len(edge_order) THEN acc
            ELSE LET src == edge_order[i][1]
                     dst == edge_order[i][2]
                 IN  SubnetFromEdges(
                         IF src \in subnets /\ plain(dst)
                         THEN PutOrdered(acc, dst, src)
                         ELSE IF dst \in subnets /\ plain(src)
                              THEN PutOrdered(acc, src, dst)
                              ELSE acc,
                         i + 1)
        RECURSIVE SubnetFromAttrs(_, _)
        \* Lines 1779-1794
        SubnetFromAttrs(acc, i) ==
            IF i > Len(res_order) THEN acc
            ELSE LET res == res_order[i]
                     subnet_ref ==
                         RefUnderKeys(all_resources[res],
                                      <<"subnet_id", "subnet_ids", "subnet",
                                        "subnets">>,
                                      FALSE, subnets)
                 IN  SubnetFromAttrs(
                         IF plain(res) /\ res \notin DOMAIN acc.val
                            /\ subnet_ref # {}
                         THEN PutOrdered(acc, res,
                                         FirstIn(ref_order, subnet_ref))
                         ELSE acc,
                         i + 1)
        resource_to_subnet ==
            SubnetFromAttrs(
                SubnetFromEdges([keys |-> <<>>, val |-> EmptyMap], 1), 1)
        RECURSIVE OtherResources(_, _, _)
        \* Lines 1809-1818
        OtherResources(vpc_name, acc, i) ==
            IF i > Len(edge_order) THEN acc
            ELSE LET src == edge_order[i][1]
                     dst == edge_order[i][2]
                 IN  OtherResources(vpc_name,
                         IF src = vpc_name /\ plain(dst)
                         THEN IF dst \notin DOMAIN resource_to_subnet.val
                              THEN Append(acc, dst) ELSE acc
                         ELSE IF dst = vpc_name /\ plain(src)
                                 /\ src \notin DOMAIN resource_to_subnet.val
                              THEN Append(acc, src)
                              ELSE acc,
                         i + 1)
        \* Lines 1797-1820
        entry(vpc_name) ==
            LET subs == {s \in DOMAIN subnet_to_vpc :
                            subnet_to_vpc[s] = vpc_name}
                other_resources == OtherResources(vpc_name, <<>>, 1)
            IN  [k \in subs \cup (IF other_resources # <<>> THEN {Other}
                                  ELSE {}) |->
                    IF k \in subs
                    THEN SelectSeq(resource_to_subnet.keys,
                             LAMBDA r : resource_to_subnet.val[r] = k)
                    ELSE other_resources]
    IN  [vpc_name \in vpcs |-> entry(vpc_name)]

(***************************************************************************)
(* The loads of the hierarchy: a VPC, a subnet, an instance and a security *)
(* group, each absent or placed in the first input file, the second one or *)
(* the file of the included module.                                        *)
(***************************************************************************)
HierItems == {"vpc", "subnet", "web", "sg"}

SubnetIdRef == Str(<<"aws_subnet", <<"public">>, "id">>)

HierKinds(item) ==
    CASE item = "subnet" -> {"plain", "attr"}
      [] item = "web" -> {"plain", "subnet_id", "subnet_ids"}
      [] item = "sg" -> {"attr"}
      [] OTHER -> {"plain"}

HierBlock(item, kind) ==
    CASE item = "web" ->
           [type |-> "aws_instance", name |-> "web",
            attrs |-> CASE kind = "subnet_id" -> [subnet_id |-> SubnetIdRef]
                        [] kind = "subnet_ids" ->
                              [subnet_ids |-> Lst(<<SubnetIdRef>>)]
                        [] OTHER -> [ami |-> Str(<<"ami">>)]]
      [] item = "sg" ->
           [type |-> "aws_security_group", name |-> "sg",
            attrs |-> [vpc_id |-> VpcIdRef]]
      [] OTHER -> Block(item, kind)

\* The input files, by index into TfPaths.
HierPathSets == {<<1>>, <<1, 2>>, <<1, 3>>, <<4>>}

HierLoad(paths, place, kind) ==
    LET blocks(where) ==
            LET at(item) == IF place[item] = where
                            THEN <<HierBlock(item, kind[item])>> ELSE <<>>
            IN  at("vpc") \o at("subnet") \o at("web") \o at("sg")
    IN  [files |-> [n \in 1..Len(paths) |->
                      [path |-> TfPaths[paths[n]],
                       resource |-> blocks(n),
                       module |-> IF n = 1 /\ blocks(0) # <<>>
                                  THEN <<[name |-> "net",
                                          source |-> ModuleSource]>>
                                  ELSE <<>>]],
         fs |-> [d \in {ModuleDir} |->
                    <<[path |-> ModuleDir \o <<"main.tf">>,
                       resource |-> blocks(0), module |-> <<>>]>>]]

\* Place 0 is the module file, -1 is nowhere.
InitHierarchy ==
    /\ fmt = "terraform"
    /\ \E paths \in HierPathSets, place \in [HierItems -> -1..2],
          kind \in [HierItems -> {"plain", "attr", "subnet_id", "subnet_ids"}] :
         /\ \A item \in HierItems :
              /\ place[item] <= Len(paths)
              /\ kind[item] \in HierKinds(item)
              /\ place[item] = -1 =>
                   kind[item] = CHOOSE k \in HierKinds(item) : TRUE
         /\ load = HierLoad(paths, place, kind)
    /\ pc = "start"
    /\ resources = EmptyMap
    /\ module_ref_maps = EmptyMap
    /\ env_ref_maps = EmptyMap
    /\ direct_edges = {}
    /\ edges = {}
    /\ fallback_ran = FALSE
    /\ InitCallers

\* The renderer's call: the hierarchy of the returned graph.
BuildHierarchy ==
    /\ fmt = "terraform"
    /\ pc = "done"
    /\ \E res_order \in Orders(DOMAIN resources), edge_order \in Orders(edges) :
         \* No reference set of these loads has two members, so the order
         \* in which one is walked is immaterial.
         hierarchy' = BuildVpcHierarchy(resources, res_order, edge_order,
                                        res_order)
    /\ pc' = "nested"
    /\ UNCHANGED <<fmt, load, resources, module_ref_maps, env_ref_maps,
                   direct_edges, edges, fallback_ran>>
    /\ UNCHANGED <<runs, selected, attempted, files_read, out_md, out_mmd,
                   exit_code>>

NextHierarchy ==
    \/ LoadTerraform
    \/ BuildTerraformEdges
    \/ FallbackChain
    \/ ReturnEdges
    \/ BuildHierarchy

SpecHierarchy == InitHierarchy /\ [][NextHierarchy]_vars

(***************************************************************************)
(* Loads for environments and module sources: up to three input files, of  *)
(* which one lies outside every environment directory, each declaring a    *)
(* VPC, a subnet or nothing, and one module block whose source is local,   *)
(* remote, a registry name, outside the root or names no directory.        *)
(***************************************************************************)
ScopePathSets ==
    {<<TfPaths[1]>>,
     <<TfPaths[4]>>,
     <<TfPaths[1], TfPaths[3]>>,
     <<<<"network", "main.tf">>, TfPaths[1]>>,
     <<<<"network", "main.tf">>, TfPaths[1], TfPaths[3]>>}

ScopeSources ==
    {ModuleSource,
     <<".", "..", "modules", "net">>,
     <<"..", "..", "..", "repo", "terraform", "modules", "net">>,
     <<"..", "..", "..", "modules", "net">>,
     <<"..", "modules", "missing">>,
     <<"terraform-aws-modules", "vpc", "aws">>,
     <<"git::", "example.com", "net.git">>,
     <<"https://", "example.com", "net.zip">>,
     <<"/", "repo", "terraform", "modules", "net">>,
     <<"/", "terraform", "modules", "net">>}

ScopeBlocks(what) ==
    CASE what = "vpc" -> <<Block("vpc", "plain")>>
      [] what = "subnet" -> <<Block("subnet", "attr")>>
      [] what = "both" -> <<Block("vpc", "plain"), Block("subnet", "attr")>>
      [] OTHER -> <<>>

InitScopes ==
    /\ fmt = "terraform"
    /\ \E paths \in ScopePathSets, source \in ScopeSources,
          includer \in 0..2, in_module \in {"subnet", "both"} :
         \E what \in [1..Len(paths) -> {"none", "vpc", "subnet"}] :
           /\ includer <= Len(paths)
           /\ load = [files |-> [n \in 1..Len(paths) |->
                                   [path |-> paths[n],
                                    resource |-> ScopeBlocks(what[n]),
                                    module |-> IF n = includer
                                               THEN <<[name |-> "net",
                                                       source |-> source]>>
                                               ELSE <<>>]],
                      fs |-> [d \in {ModuleDir} |->
                                <<[path |-> ModuleDir \o <<"main.tf">>,
                                   resource |-> ScopeBlocks(in_module),
                                   module |-> <<>>]>>]]
    /\ pc = "start"
    /\ resources = EmptyMap
    /\ module_ref_maps = EmptyMap
    /\ env_ref_maps = EmptyMap
    /\ direct_edges = {}
    /\ edges = {}
    /\ fallback_ran = FALSE
    /\ InitCallers

SpecScopes == InitScopes /\ [][NextTerraform]_vars

(***************************************************************************)
(* Loads for the bookkeeping keys: up to two input files out of a file of  *)
(* environment dev named after a resource id (aws_vpc.main.tf), a file of  *)
(* dev and a file of prod, each declaring a VPC, a subnet, both or         *)
(* nothing, the subnet with or without a reference to the VPC, and at most *)
(* one of them including the module.                                       *)
(***************************************************************************)
BookPaths ==
    << <<"terraform", "dev", "aws_vpc.main.tf">>, TfPaths[1], TfPaths[3] >>

BookBlocks(what, kind) ==
    (IF what \in {"vpc", "both"} THEN <<Block("vpc", "plain")>> ELSE <<>>)
    \o (IF what \in {"subnet", "both"} THEN <<Block("subnet", kind)>>
        ELSE <<>>)

InitBookkeeping ==
    /\ fmt = "terraform"
    /\ \E idx \in SUBSET (1..Len(BookPaths)) :
         /\ idx # {}
         /\ Cardinality(idx) <= 2
         /\ \E what \in [idx -> {"none", "vpc", "subnet", "both"}],
               kind \in {"plain", "attr"}, includer \in idx \cup {0},
               in_module \in {"subnet", "both"} :
              load = [files |-> [n \in 1..Cardinality(idx) |->
                                   [path |-> BookPaths[SeqOfIdx(idx)[n]],
                                    resource |->
                                        BookBlocks(what[SeqOfIdx(idx)[n]],
                                                   kind),
                                    module |->
                                        IF SeqOfIdx(idx)[n] = includer
                                        THEN <<[name |-> "net",
                                                source |-> ModuleSource]>>
                                        ELSE <<>>]],
                      fs |-> [d \in {ModuleDir} |->
                                <<[path |-> ModuleDir \o <<"main.tf">>,
                                   resource |-> BookBlocks(in_module, kind),
                                   module |-> <<>>]>>]]
    /\ pc = "start"
    /\ resources = EmptyMap
    /\ module_ref_maps = EmptyMap
    /\ env_ref_maps = EmptyMap
    /\ direct_edges = {}
    /\ edges = {}
    /\ fallback_ran = FALSE
    /\ InitCallers

SpecBookkeeping == InitBookkeeping /\ [][NextTerraform]_vars

(***************************************************************************)
(* Loads for module inclusions: one or two input files, at most one of     *)
(* them including the module net or the module core, and the files of the  *)
(* two modules each with no module block, a block including the module     *)
(* itself or a block including the other one.                              *)
(***************************************************************************)
CoreDir == <<"terraform", "modules", "core">>

ModulePathSets == {<<TfPaths[1]>>, <<TfPaths[1], TfPaths[3]>>}

\* The module block a file of a module directory holds.
NestedModule(to) ==
    CASE to = "self" -> <<[name |-> "net", source |-> <<".">>]>>
      [] to = "net" -> <<[name |-> "net", source |-> <<"..", "net">>]>>
      [] to = "core" -> <<[name |-> "net", source |-> <<"..", "core">>]>>
      [] OTHER -> <<>>

InitModules ==
    /\ fmt = "terraform"
    /\ \E paths \in ModulePathSets, includer \in 0..2,
          source \in {ModuleSource, <<"..", "modules", "core">>},
          net_to \in {"none", "self", "core"},
          core_to \in {"none", "self", "net"} :
         \E what \in [1..Len(paths) -> {"none", "vpc", "subnet"}] :
           /\ includer <= Len(paths)
           /\ load = [files |-> [n \in 1..Len(paths) |->
                                   [path |-> paths[n],
                                    resource |-> ScopeBlocks(what[n]),
                                    module |-> IF n = includer
                                               THEN <<[name |-> "net",
                                                       source |-> source]>>
                                               ELSE <<>>]],
                      fs |-> [d \in {ModuleDir, CoreDir} |->
                                IF d = ModuleDir
                                THEN <<[path |-> ModuleDir \o <<"main.tf">>,
                                        resource |-> ScopeBlocks("subnet"),
                                        module |-> NestedModule(net_to)]>>
                                ELSE <<[path |-> CoreDir \o <<"main.tf">>,
                                        resource |->
                                            <<[type |-> "aws_instance",
                                               name |-> "web",
                                               attrs |-> BodyAttrs("plain")]>>,
                                        module |-> NestedModule(core_to)]>>]]
    /\ pc = "start"
    /\ resources = EmptyMap
    /\ module_ref_maps = EmptyMap
    /\ env_ref_maps = EmptyMap
    /\ direct_edges = {}
    /\ edges = {}
    /\ fallback_ran = FALSE
    /\ InitCallers

SpecModules == InitModules /\ [][NextTerraform]_vars

(***************************************************************************)
(* _static_terraform_mermaid, called after _static_terraform_graph on the  *)
(* same files.  A Mermaid node id is the sequence of the words that the    *)
(* underscores of the cleaned string separate.  The loads: one or two      *)
(* input files, of dev and of prod, each with none or some of the blocks   *)
(* aws_vpc.main, aws_subnet.public, aws_vpc.endpoint_main and              *)
(* aws_vpc_endpoint.main, at most one of them including the module.        *)
(***************************************************************************)
\* The words of an atom: its parts between the underscores.
AtomWords(atom) ==
    CASE atom = "aws_vpc" -> <<"aws", "vpc">>
      [] atom = "aws_subnet" -> <<"aws", "subnet">>
      [] atom = "aws_vpc_endpoint" -> <<"aws", "vpc", "endpoint">>
      [] atom = "aws_instance" -> <<"aws", "instance">>
      [] atom = "aws_security_group" -> <<"aws", "security", "group">>
      [] atom = "endpoint_main" -> <<"endpoint", "main">>
      [] atom = "module_net" -> <<"module", "net">>
      [] OTHER -> <<atom>>

RECURSIVE SafeNodeId(_)
\* _safe_node_id of the atoms of raw joined by "_", "." or "__": every
\* separator becomes "_", runs of "_" become one.
SafeNodeId(raw) ==
    IF raw = <<>> THEN <<>>
    ELSE AtomWords(raw[1]) \o SafeNodeId(Tail(raw))

Inferred ==
    "Connections represent inferred references (including depends_on and attribute references)."

Heuristic ==
    "No explicit references found; connections are heuristic to show grouping."

\* Lines 3362-3364.
AssumptionsOf(arrows) == IF arrows = {} THEN Heuristic ELSE Inferred

EndpointRef == Str(<<"aws_vpc", <<"endpoint_main">>, "id">>)

MermaidBlocks(what) ==
    CASE what = "vpc" -> <<Block("vpc", "plain")>>
      [] what = "both" -> <<Block("vpc", "plain"), Block("subnet", "attr")>>
      [] what = "both_plain" ->
            <<Block("vpc", "plain"), Block("subnet", "plain")>>
      [] what = "subnet" -> <<Block("subnet", "attr")>>
      [] what = "endpoint" ->
            <<[type |-> "aws_vpc_endpoint", name |-> "main",
               attrs |-> BodyAttrs("plain")]>>
      [] what = "endpoints" ->
            <<[type |-> "aws_vpc", name |-> "endpoint_main",
               attrs |-> BodyAttrs("plain")],
              [type |-> "aws_vpc_endpoint", name |-> "main",
               attrs |-> [cidr_block |-> Cidr, vpc_id |-> EndpointRef]]>>
      [] what = "endpoints_plain" ->
            <<[type |-> "aws_vpc", name |-> "endpoint_main",
               attrs |-> BodyAttrs("plain")],
              [type |-> "aws_vpc_endpoint", name |-> "main",
               attrs |-> BodyAttrs("plain")]>>
      [] OTHER -> <<>>

MermaidKinds ==
    {"none", "vpc", "both", "both_plain", "subnet", "endpoint", "endpoints",
     "endpoints_plain"}

InitMermaid ==
    /\ fmt = "terraform"
    /\ \E paths \in ModulePathSets, includer \in 0..2 :
         \E what \in [1..Len(paths) -> MermaidKinds] :
           /\ includer <= Len(paths)
           /\ load = [files |-> [n \in 1..Len(paths) |->
                                   [path |-> paths[n],
                                    resource |-> MermaidBlocks(what[n]),
                                    module |-> IF n = includer
                                               THEN <<[name |-> "net",
                                                       source |->
                                                           ModuleSource]>>
                                               ELSE <<>>]],
                      fs |-> [d \in {ModuleDir} |->
                                <<[path |-> ModuleDir \o <<"main.tf">>,
                                   resource |-> MermaidBlocks("subnet"),
                                   module |-> <<>>]>>]]
    /\ pc = "start"
    /\ resources = EmptyMap
    /\ module_ref_maps = EmptyMap
    /\ env_ref_maps = EmptyMap
    /\ direct_edges = {}
    /\ edges = {}
    /\ fallback_ran = FALSE
    /\ InitCallers

\* _static_terraform_mermaid: it loads the files again, names the nodes,
\* derives the edges, falls back to the chain and writes the text, kept
\* here as its nodes, its arrows and the assumptions returned with it.
StaticTerraformMermaid ==
    /\ fmt = "terraform"
    /\ pc = "done"
    /\ \E r \in {TerraformResourcesFromFiles(load.files, load.fs)} :
         LET all_resources == r.resources
             node_id_by_res ==
                 [res \in DOMAIN all_resources |->
                     SafeNodeId(<<"tf", res[1]>> \o res[2])]
             Arrows(E) ==
                 {<<node_id_by_res[e[1]], node_id_by_res[e[2]]>> : e \in E}
             ref_edges ==
                 Arrows(TerraformDirectEdges(all_resources, r.module_ref_maps,
                                             r.env_ref_maps))
             arrows ==
                 IF ref_edges = {}
                 THEN Arrows(FallbackChainEdges(all_resources))
                 ELSE ref_edges
         IN  out_mmd' = <<[format |-> "terraform",
                           node_id_by_res |-> node_id_by_res,
                           nodes |-> {node_id_by_res[res] :
                                         res \in DOMAIN all_resources},
                           arrows |-> arrows,
                           assumptions |-> AssumptionsOf(arrows)]>>
    /\ pc' = "rendered"
    /\ UNCHANGED <<fmt, load, resources, module_ref_maps, env_ref_maps,
                   direct_edges, edges, fallback_ran>>
    /\ UNCHANGED <<runs, hierarchy, selected, attempted, files_read, out_md,
                   exit_code>>

NextMermaid ==
    \/ LoadTerraform
    \/ BuildTerraformEdges
    \/ FallbackChain
    \/ ReturnEdges
    \/ StaticTerraformMermaid

SpecMermaid == InitMermaid /\ [][NextMermaid]_vars

(***************************************************************************)
(* _build_vpc_hierarchy on resource maps and edge sets of its own: at most *)
(* MaxNested resources out of two networks, two subnets, an instance and a *)
(* security group, and at most MaxNestEdges edges between them.  The call  *)
(* may be repeated on the same input.                                      *)
(***************************************************************************)
MaxNested == 4
MaxNestEdges == 2

NestIds ==
    {<<"aws_vpc", <<"main">>>>, <<"aws_vpc", <<"backup">>>>,
     <<"aws_subnet", <<"public">>>>, <<"aws_subnet", <<"private">>>>,
     <<"aws_instance", <<"web">>>>, <<"aws_security_group", <<"sg">>>>}

\* "${T.N.id}"
IdRef(id) == Str(<<id[1], id[2], "id">>)

\* The attribute bodies a resource of the universe may carry.
NestAttrs(id) ==
    LET main == IdRef(<<"aws_vpc", <<"main">>>>)
        backup == IdRef(<<"aws_vpc", <<"backup">>>>)
        public == IdRef(<<"aws_subnet", <<"public">>>>)
        private == IdRef(<<"aws_subnet", <<"private">>>>)
    IN  CASE id = <<"aws_subnet", <<"public">>>> ->
               {[cidr_block |-> Cidr],
                [vpc_id |-> main],
                [vcn_id |-> backup],
                [vpc_id |-> main, vcn_id |-> backup]}
          [] id = <<"aws_instance", <<"web">>>> ->
               {[ami |-> Str(<<"ami">>)],
                [subnet_id |-> public],
                [subnets |-> Lst(<<private>>)],
                [subnet_id |-> public, subnets |-> Lst(<<private>>)],
                [subnet_ids |-> Lst(<<public, private>>)]}
          [] OTHER -> {[cidr_block |-> Cidr]}

InitNesting ==
    /\ fmt = "terraform"
    /\ load = [edge_order |-> <<>>, res_order |-> <<>>, ref_order |-> <<>>]
    /\ pc = "start"
    /\ \E ids \in SUBSET NestIds :
         /\ ids # {}
         /\ Cardinality(ids) <= MaxNested
         /\ resources \in [ids -> UNION {NestAttrs(id) : id \in ids}]
         /\ \A id \in ids : resources[id] \in NestAttrs(id)
         /\ edges \in SUBSET {e \in ids \X ids : e[1] # e[2]}
         /\ Cardinality(edges) <= MaxNestEdges
    /\ module_ref_maps = EmptyMap
    /\ env_ref_maps = EmptyMap
    /\ direct_edges = edges
    /\ fallback_ran = FALSE
    /\ InitCallers

\* One call: the edge set, the plain resources of the dict and the subnets
\* of a reference set are each walked in some order, which load records.
NestCall(next_pc) ==
    LET ids == DOMAIN resources
        subnets == {r \in ids : ~IsVpcOrNetwork(r[1]) /\ IsSubnet(r[1])}
        plains == {r \in ids : ~IsVpcOrNetwork(r[1]) /\ ~IsSubnet(r[1])}
    IN  /\ \E edge_order \in Orders(edges), plain_order \in Orders(plains),
              subnet_order \in Orders(subnets) :
              /\ load' = [edge_order |-> edge_order,
                          res_order |-> Sorted(ids \ plains) \o plain_order,
                          ref_order |-> Sorted(ids \ subnets)
                                          \o subnet_order]
              /\ hierarchy' = BuildVpcHierarchy(resources, load'.res_order,
                                                load'.edge_order,
                                                load'.ref_order)
        /\ pc' = next_pc
        /\ UNCHANGED <<fmt, resources, module_ref_maps, env_ref_maps,
                       direct_edges, edges, fallback_ran>>
        /\ UNCHANGED <<runs, selected, attempted, files_read, out_md,
                       out_mmd, exit_code>>

NestFirst == pc = "start" /\ NestCall("nested")

NestAgain == pc = "nested" /\ NestCall("nested")

NextNesting ==
    \/ NestFirst
    \/ NestAgain

SpecNesting == InitNesting /\ [][NextNesting]_vars

(***************************************************************************)
(* Vocabulary of the claims.  It reads the load and the ids as written,    *)
(* not through the operators of the graph builder.                         *)
(***************************************************************************)
BookkeepingKeys ==
    {"_auto_arch_env", "_auto_arch_logical_id", "_auto_arch_source_file"}

\* The attribute body as declared in the source file.
DeclaredBody(attrs) == [key \in (DOMAIN attrs) \ BookkeepingKeys |-> attrs[key]]

\* The string s is "T.N" or "T.N.attr..." for the id t = T.N.
Names(s, t) == Len(s) >= 2 /\ s[1] = t[1] /\ s[2] = t[2]

\* The declared body contains a string that references t.
References(attrs, t) == \E s \in Walk(DeclaredBody(attrs)) : Names(s, t)

\* The declared body has a depends_on entry naming t.
DependsOnNames(attrs, t) ==
    /\ "depends_on" \in DOMAIN attrs
    /\ \E s \in StringsIn(attrs["depends_on"]) : Names(s, t)

LocalIds == {<<"aws_vpc", <<"main">>>>, <<"aws_subnet", <<"public">>>>}

\* The prefixes an id carries in front of its local name.
ScopePrefix(id) == SubSeq(id[2], 1, Len(id[2]) - 1)

\* The id was loaded from a module directory.
InModule(id) == \E i \in 1..Len(ScopePrefix(id)) : id[2][i] \in ModuleAtoms

\* The environment prefix of an id (empty when it has none).
EnvPrefixOf(id) ==
    IF ScopePrefix(id) # <<>> /\ id[2][1] \notin ModuleAtoms
    THEN <<id[2][1]>> ELSE <<>>

\* The id the local id t denotes in the scope prefix p.
InScope(t, p) == <<t[1], p \o t[2]>>

TfDone == fmt = "terraform" /\ pc = "done"

FileIdx == 1..Len(load.files)

\* File i declares a block with the local id t.
Declares(f, t) ==
    \E n \in 1..Len(f.resource) :
        f.resource[n].type = t[1] /\ <<f.resource[n].name>> = t[2]

(***************************************************************************)
(* C1.  Terraform: when the declared body of resource R contains a string  *)
(* referencing T.N (or T.N.attr) and T.N is the id of another resource of  *)
(* the load, the returned edge set contains (T.N, R).                      *)
(***************************************************************************)
C1_ReferenceYieldsEdge ==
    TfDone =>
        \A r \in DOMAIN resources :
            \A t \in (DOMAIN resources) \ {r} :
                References(resources[r], t) => <<t, r>> \in edges

\* The reference T.N written in R is a local id of R's own module scope or
\* environment, where it denotes another resource than T.N.
Shadowed(r, t) ==
    \/ /\ InModule(r)
       /\ InScope(t, ScopePrefix(r)) \in DOMAIN resources
       /\ InScope(t, ScopePrefix(r)) # t
    \/ /\ InScope(t, EnvPrefixOf(r)) \in DOMAIN resources
       /\ InScope(t, EnvPrefixOf(r)) # t

\* C1 as amended: the same, provided the reference T.N is not a local id
\* of R's own module scope or environment denoting another resource (it
\* then resolves to that resource, and the edge starts there).
C1_UnshadowedReferenceYieldsEdge ==
    TfDone =>
        \A r \in DOMAIN resources :
            \A t \in (DOMAIN resources) \ {r} :
                (References(resources[r], t) /\ ~Shadowed(r, t))
                    => <<t, r>> \in edges

\* Scenario 1: aws_subnet.public with vpc_id = aws_vpc.main.id, and the edge.
C1_Witness ==
    /\ TfDone
    /\ <<"aws_vpc", <<"main">>>> \in DOMAIN resources
    /\ <<"aws_subnet", <<"public">>>> \in DOMAIN resources
    /\ "vpc_id" \in DOMAIN resources[<<"aws_subnet", <<"public">>>>]
    /\ resources[<<"aws_subnet", <<"public">>>>]["vpc_id"] = VpcIdRef
    /\ <<<<"aws_vpc", <<"main">>>>, <<"aws_subnet", <<"public">>>>>> \in edges

(***************************************************************************)
(* C2.  CloudFormation: Fn::GetAtt naming the logical id X yields the      *)
(* single reference X both in list form [X, Attr] and in string form       *)
(* "X.Attr", and a resource R carrying either form has the edge (X, R)     *)
(* whenever X is a declared resource other than R.                         *)
(***************************************************************************)
CfnDone == fmt = "cloudformation" /\ pc = "done"

GetAttAttrs == {<<"Arn">>, <<"Outputs", "Name">>}

\* The resource body has a property whose value is the given node.
HasProperty(body, node) ==
    LET props == GetV(body, "Properties")
    IN  props.k = "map" /\ \E key \in DOMAIN props.v : props.v[key] = node

C2_GetAttFormsAgree ==
    CfnDone =>
        \A r \in DOMAIN resources :
            \A x \in {"Bucket", "Role", "Func"}, attr \in GetAttAttrs :
                /\ ExtractCfnRefs(GetAttList(x, attr)) = {CId(x)}
                /\ ExtractCfnRefs(GetAttString(x, attr)) = {CId(x)}
                /\ ( /\ \/ HasProperty(resources[r], GetAttList(x, attr))
                        \/ HasProperty(resources[r], GetAttString(x, attr))
                     /\ CId(x) \in DOMAIN resources
                     /\ CId(x) # r )
                   => <<CId(x), r>> \in edges

\* Func with Role given as Fn::GetAtt: "Role.Arn", and the edge (Role, Func).
C2_Witness ==
    /\ CfnDone
    /\ CId("Func") \in DOMAIN resources
    /\ HasProperty(resources[CId("Func")], GetAttString("Role", <<"Arn">>))
    /\ edges = {<<CId("Role"), CId("Func")>>}

(***************************************************************************)
(* C3.  No returned edge (Terraform with its fallback chain,               *)
(* CloudFormation, Bicep, Pulumi YAML) has the same id as source and       *)
(* target.                                                                 *)
(***************************************************************************)
C3_NoSelfEdges ==
    pc = "done" =>
        /\ \A e \in edges : e[1] # e[2]
        /\ \A e \in direct_edges : e[1] # e[2]

\* A module resource under an environment prefix that references itself,
\* in a load whose edges come from the fallback chain.
C3_Witness ==
    /\ TfDone
    /\ fallback_ran
    /\ edges # {}
    /\ \E r \in DOMAIN resources :
         /\ InModule(r)
         /\ EnvPrefixOf(r) # <<>>
         /\ References(resources[r], <<r[1], <<r[2][Len(r[2])]>>>>)

(***************************************************************************)
(* C4.  Both endpoints of every returned edge are keys of the resource map *)
(* returned with it; a reference that resolves to no resource yields no    *)
(* edge and no error (the only error is a load without resources).         *)
(***************************************************************************)
C4_EndpointsAreResources ==
    /\ pc = "done" =>
         \A e \in edges \cup direct_edges :
             e[1] \in DOMAIN resources /\ e[2] \in DOMAIN resources
    /\ pc = "raised" => DOMAIN resources = {}

\* aws_subnet.public references aws_vpc.main, which no file declares.
C4_Witness ==
    /\ TfDone
    /\ DOMAIN resources = {<<"aws_subnet", <<"public">>>>}
    /\ References(resources[<<"aws_subnet", <<"public">>>>], <<"aws_vpc", <<"main">>>>)
    /\ edges = {}

(***************************************************************************)
(* C5.  Terraform: a depends_on entry of R naming the declared resource D  *)
(* (D other than R) yields the edge (D, R), also when R references D from  *)
(* other attributes and under environment or module prefixes.  The entry   *)
(* is written as a local id; D is the resource it denotes in R's scope.    *)
(***************************************************************************)
C5_DependsOnYieldsEdge ==
    TfDone =>
        \A r \in DOMAIN resources :
            \A t \in LocalIds :
                LET d == InScope(t, ScopePrefix(r))
                IN  (DependsOnNames(resources[r], t)
                     /\ d \in DOMAIN resources /\ d # r)
                        => <<d, r>> \in edges

(***************************************************************************)
(* C6.  When a dev file and a prod file each declare aws_vpc.main, the     *)
(* resource map holds aws_vpc.dev__main and aws_vpc.prod__main and no      *)
(* aws_vpc.main, and a resource of a dev file referencing aws_vpc.main has *)
(* the edge from aws_vpc.dev__main and none from aws_vpc.prod__main.       *)
(***************************************************************************)
VpcMain == <<"aws_vpc", <<"main">>>>

\* Some input file of the directory of environment env declares aws_vpc.main.
EnvDeclaresVpc(env) ==
    \E i \in FileIdx :
        /\ load.files[i].path[1] = "terraform"
        /\ load.files[i].path[2] = env
        /\ Declares(load.files[i], VpcMain)

C6_EnvironmentRoundTrip ==
    (TfDone /\ EnvDeclaresVpc("dev") /\ EnvDeclaresVpc("prod")) =>
        /\ InScope(VpcMain, <<"dev">>) \in DOMAIN resources
        /\ InScope(VpcMain, <<"prod">>) \in DOMAIN resources
        /\ VpcMain \notin DOMAIN resources
        /\ \A r \in DOMAIN resources :
              ( /\ ScopePrefix(r) = <<"dev">>
                /\ r # InScope(VpcMain, <<"dev">>)
                /\ References(resources[r], VpcMain) )
              => /\ <<InScope(VpcMain, <<"dev">>), r>> \in edges
                 /\ <<InScope(VpcMain, <<"prod">>), r>> \notin edges

\* dev and prod declare aws_vpc.main and the dev subnet references it.
C6_Witness ==
    /\ TfDone
    /\ EnvDeclaresVpc("dev")
    /\ EnvDeclaresVpc("prod")
    /\ <<"aws_subnet", <<"dev", "public">>>> \in DOMAIN resources
    /\ References(resources[<<"aws_subnet", <<"dev", "public">>>>], VpcMain)
    /\ edges = {<<InScope(VpcMain, <<"dev">>), <<"aws_subnet", <<"dev", "public">>>>>>}

(***************************************************************************)
(* C7.  For every local module inclusion with alias A from a file of       *)
(* environment E, each module resource T.N gets the id T.[E__]module_A__N, *)
(* and a reference inside a module resource to a local id declared in the  *)
(* same module yields the edge between the two module resources, never one *)
(* from the same-named resource declared outside the module.               *)
(***************************************************************************)
\* The environment prefix the ids of input file i carry.
FilePrefix(i) ==
    IF Cardinality({load.files[j].path[2] : j \in FileIdx}) > 1
    THEN <<load.files[i].path[2]>> ELSE <<>>

C7_ModuleScopedReferences ==
    TfDone =>
        /\ \A i \in FileIdx :
              \A n \in 1..Len(load.files[i].module) :
                 \A t \in LocalIds :
                    Declares(load.fs[ModuleDir][1], t) =>
                        InScope(t, FilePrefix(i)
                                   \o <<"module_" \o load.files[i].module[n].name>>)
                            \in DOMAIN resources
        /\ \A r \in DOMAIN resources :
              InModule(r) =>
                 \A t \in LocalIds :
                    LET d == InScope(t, ScopePrefix(r))
                        outside == InScope(t, EnvPrefixOf(r))
                    IN  (References(resources[r], t)
                         /\ d \in DOMAIN resources /\ d # r)
                            => /\ <<d, r>> \in edges
                               /\ <<outside, r>> \notin edges

(***************************************************************************)
(* C8.  References cross the files of a load: when resource R, kept in the *)
(* resource map from input file F1, references the local id of a resource  *)
(* S declared in another input file F2 of the same directory, the edge     *)
(* (S, R) is returned (both under the prefix of their directory's          *)
(* environment when prefixing is active).                                  *)
(***************************************************************************)
\* The entry of r in the resource map was loaded from input file i.
LoadedFrom(r, i) ==
    /\ ~InModule(r)
    /\ ScopePrefix(r) = FilePrefix(i)
    /\ resources[r]["_auto_arch_source_file"] = Str(PathScalar(load.files[i].path))
    /\ Declares(load.files[i], <<r[1], <<r[2][Len(r[2])]>>>>)

C9_FallbackExclusive ==
    TfDone =>
        /\ fallback_ran <=> direct_edges = {}
        /\ ~fallback_ran => edges = direct_edges
        /\ fallback_ran => edges = FallbackChainEdges(resources)

\* Three resources, a single reference-derived edge: it is returned alone.
C9_Witness ==
    /\ TfDone
    /\ Cardinality(DOMAIN resources) = 3
    /\ Cardinality(direct_edges) = 1
    /\ ~fallback_ran
    /\ edges = direct_edges
    /\ FallbackChainEdges(resources) # {}

(***************************************************************************)
(* C10.  Whenever the reference-derived edge set is empty and the load has *)
(* more than one resource, the fallback output is a non-empty edge set,    *)
(* whatever prefixes the resource ids carry.                               *)
(***************************************************************************)
C10_FallbackNonEmpty ==
    (TfDone /\ direct_edges = {} /\ Cardinality(DOMAIN resources) > 1)
        => edges # {}

\* C10 as amended: whenever the reference-derived edge set is empty and two
\* resources of the load fall into the same group of the fallback (the
\* module-prefix scope _module_prefix_for_resource gives them, the
\* unscoped resources forming one group), the fallback output is non-empty.
C10_FallbackNonEmptyPerGroup ==
    (TfDone /\ direct_edges = {}
     /\ \E r1, r2 \in DOMAIN resources :
           r1 # r2 /\ FallbackGroupKey(r1) = FallbackGroupKey(r2))
        => edges # {}

\* Two resources of one module under an environment prefix, no reference.
C10_Witness ==
    /\ TfDone
    /\ direct_edges = {}
    /\ edges # {}
    /\ \E r1, r2 \in DOMAIN resources :
          /\ r1 # r2
          /\ InModule(r1) /\ InModule(r2)
          /\ EnvPrefixOf(r1) # <<>>
          /\ ScopePrefix(r1) = ScopePrefix(r2)
          /\ <<r1, r2>> \in edges

(***************************************************************************)
(* C11.  The fallback groups the resource ids by module-prefix scope (the  *)
(* ids without a module prefix forming one group) and returns, for each    *)
(* group sorted lexicographically, exactly the edges between consecutive   *)
(* ids of the group and nothing else.                                      *)
(***************************************************************************)
\* The module-prefix scope an id carries, read off the id as written: the
\* prefixes up to and including "module_<alias>", nothing for other ids.
ModuleScopeOf(id) == IF InModule(id) THEN ScopePrefix(id) ELSE <<>>

\* a and b are neighbours in the lexicographic order of their group.
ConsecutiveInGroup(a, b) ==
    /\ ModuleScopeOf(a) = ModuleScopeOf(b)
    /\ IdLess(a, b)
    /\ ~\E c \in DOMAIN resources :
          /\ ModuleScopeOf(c) = ModuleScopeOf(a)
          /\ IdLess(a, c) /\ IdLess(c, b)

C11_FallbackChainShape ==
    (TfDone /\ fallback_ran) =>
        edges = {e \in (DOMAIN resources) \X (DOMAIN resources) :
                    ConsecutiveInGroup(e[1], e[2])}

(***************************************************************************)
(* C12.  Running the graph builder again on the same resource map and      *)
(* remap tables returns the same edge set, whatever the order in which     *)
(* each run visits the items of the resource map.                          *)
(***************************************************************************)
C12_RepeatedRunsAgree ==
    \A i, j \in 1..Len(runs) : runs[i] = runs[j]

\* Two runs were made on a map in which two different resources have edges
\* into them, so that the runs could differ by their visiting order.
C12_Witness ==
    /\ Len(runs) = 2
    /\ runs[1] = runs[2]
    /\ Cardinality({e[2] : e \in runs[2]}) >= 2

(***************************************************************************)
(* C13.  _static_markdown tries Terraform, CloudFormation, Bicep, Pulumi   *)
(* YAML in that order; a format is tried only after every earlier one has  *)
(* yielded no resource, and the diagram returned is that of exactly one    *)
(* format, the first in the order that yields a resource, also when files  *)
(* of a later format are present.                                          *)
(***************************************************************************)
\* The files of the repository that declare a resource, by format.
ResourceFiles ==
    [terraform |-> {<<"terraform", "dev", "main.tf">>},
     cloudformation |-> {<<"stack.cfn.json">>},
     bicep |-> {<<"main.bicep">>},
     pulumi |-> {<<"Pulumi.yaml">>}]

\* Some file handed to _static_markdown declares a resource of the format.
Yields(format) ==
    \E n \in 1..Len(selected) : selected[n] \in ResourceFiles[format]

C13_FormatDispatchOrder ==
    LET order == <<"terraform", "cloudformation", "bicep", "pulumi">>
        yielding == {i \in 1..4 : Yields(order[i])}
    IN  /\ Len(attempted) <= 4
        /\ attempted = SubSeq(order, 1, Len(attempted))
        /\ \A i \in 1..(Len(attempted) - 1) : ~Yields(attempted[i])
        /\ (pc = "exit" /\ yielding # {}) =>
              /\ attempted = SubSeq(order, 1, Min(yielding))
              /\ fmt = order[Min(yielding)]
              /\ Len(out_mmd) = 1
              /\ out_mmd[1].format = fmt
              /\ out_mmd[1].nodes = DOMAIN TryFormat(fmt, selected).resources
              /\ out_mmd[1].arrows = TryFormat(fmt, selected).edges
              /\ out_md.mermaid = out_mmd

\* A Terraform file without resources, a CloudFormation template with
\* resources and a Bicep file: the diagram is the CloudFormation one.
C13_Witness ==
    /\ pc = "exit"
    /\ selected = <<<<"terraform", "prod", "main.tf">>, <<"main.bicep">>,
                    <<"stack.cfn.json">>>>
    /\ attempted = <<"terraform", "cloudformation">>
    /\ fmt = "cloudformation"
    /\ out_mmd[1].nodes = {CId("Role"), CId("Func")}

(***************************************************************************)
(* C15.  In static mode main returns 0 on every path, having written an    *)
(* out-md document that contains the marker: before the return a step is   *)
(* always possible and every step brings the return nearer; when no format *)
(* matched, the document is the fallback document with one reason and the  *)
(* Mermaid output is empty.                                                *)
(***************************************************************************)
\* The messages a fallback document may carry.
HumanReasons ==
    {"No IaC file changes detected.",
     "No valid IaC file paths after sanitization.",
     "No CloudFormation templates parsed from the changed files.",
     "No CloudFormation Resources found in parsed templates.",
     "No supported IaC parsers produced a diagram."}

\* What holds once main has returned.
MainReturned ==
    /\ exit_code = 0
    /\ out_md.marker = "<!-- auto-arch-diagram -->"
    /\ fmt = None =>
          /\ out_md.summary = "Unable to generate diagram automatically."
          /\ Len(out_md.reason) = 1
          /\ out_md.reason[1] \in HumanReasons
          /\ out_mmd = <<>>

\* The guards of the steps of main, spelled out: before the return some
\* step can always be taken.
MainCanStep ==
    \/ pc = "main"
    \/ pc = "try" /\ Len(attempted) <= 4
    \/ pc = "matched"

\* The number of steps main may still take: every step lowers it.
MainRank ==
    CASE pc = "main" -> 7
      [] pc = "try" -> 6 - Len(attempted)
      [] pc = "matched" -> 1
      [] OTHER -> 0

C16_FilesReadWithinLimit ==
    Cardinality(files_read) <= load.max_files

(***************************************************************************)
(* C14.  A load with a VPC V, a subnet S whose vpc_id references V and an  *)
(* instance I whose subnet_id references S, the three declared in one      *)
(* directory: the hierarchy of the load's graph nests I under S under V,   *)
(* and when the load holds nothing else the hierarchy is exactly           *)
(* {V: {S: [I]}}, without an "other" entry.                                *)
(***************************************************************************)
\* The directories whose files declare a resource of the type with an
\* attribute of the given key ("" for any body).
DirsDeclaring(type, key) ==
    LET all == {load.files[n] : n \in 1..Len(load.files)}
                 \cup {load.fs[ModuleDir][1]}
        has(f) == \E n \in 1..Len(f.resource) :
                     /\ f.resource[n].type = type
                     /\ key # "" => key \in DOMAIN f.resource[n].attrs
    IN  {Parent(f.path) : f \in {g \in all : has(g)}}

\* The scenario of the claim.
VpcSubnetInstance ==
    \E d \in DirsDeclaring("aws_vpc", "") :
        /\ DirsDeclaring("aws_subnet", "vpc_id") = {d}
        /\ DirsDeclaring("aws_instance", "subnet_id") = {d}

\* The one id of the type among the loaded resources.
TheId(type) == CHOOSE r \in DOMAIN resources : r[1] = type

WrittenEnv(path) == IF path[1] = "terraform" THEN <<path[2]>> ELSE <<>>

WrittenEnvs == {WrittenEnv(load.files[n].path) : n \in FileIdx} \ {<<>>}

\* The ids a file contributes under the scope prefix p: its own blocks and
\* those of the module it includes.
IdsUnder(f, p) ==
    {<<f.resource[n].type, p \o <<f.resource[n].name>>>> :
        n \in 1..Len(f.resource)}

TfLoaded == fmt = "terraform" /\ pc \in {"loaded", "built", "done"}

C17_EnvPrefixWholeRun ==
    TfLoaded =>
        IF Cardinality(WrittenEnvs) > 1
        THEN /\ \A r \in DOMAIN resources :
                  EnvPrefixOf(r) \in WrittenEnvs \cup {<<"shared">>}
             /\ \A n \in FileIdx :
                  LET env == IF WrittenEnv(load.files[n].path) = <<>>
                             THEN <<"shared">>
                             ELSE WrittenEnv(load.files[n].path)
                  IN  IdsUnder(load.files[n], env) \subseteq DOMAIN resources
             /\ DOMAIN env_ref_maps # {}
        ELSE /\ \A r \in DOMAIN resources : EnvPrefixOf(r) = <<>>
             /\ \A n \in FileIdx :
                  IdsUnder(load.files[n], <<>>) \subseteq DOMAIN resources
             /\ env_ref_maps = EmptyMap

\* Three files, one of them outside every environment: its VPC is loaded
\* as aws_vpc.shared__main next to the module's subnet under dev.
C17_Witness ==
    /\ TfLoaded
    /\ Len(load.files) = 3
    /\ <<"aws_vpc", <<"shared", "main">>>> \in DOMAIN resources
    /\ <<"aws_subnet", <<"dev", "module_net", "public">>>> \in DOMAIN resources
    /\ "shared" \in DOMAIN env_ref_maps

(***************************************************************************)
(* C18.  A module block contributes resources and a remap table only if    *)
(* its source is a local path (it starts with "/", "./" or "../", without  *)
(* git:: and without "://") that leads to an existing directory inside the *)
(* project root.  For every other source the module adds no resource and   *)
(* no remap entry, and the blocks of the input files are loaded all the    *)
(* same.                                                                   *)
(***************************************************************************)
\* The sources that lead from the directory base to terraform/modules/net.
LocalModuleSources(base) ==
    {<<"/", "repo", "terraform", "modules", "net">>,
     <<"..", "..", "..", "repo", "terraform", "modules", "net">>}
    \cup (IF base[1] = "terraform"
          THEN {<<"..", "modules", "net">>, <<".", "..", "modules", "net">>}
          ELSE {})

\* Some module block of the load has a source that leads to the module.
IncludesLocalModule ==
    \E n \in FileIdx :
        /\ load.files[n].module # <<>>
        /\ load.files[n].module[1].source
             \in LocalModuleSources(Parent(load.files[n].path))

ModuleContributes ==
    \/ \E r \in DOMAIN resources : InModule(r)
    \/ module_ref_maps # EmptyMap

C18_OnlyLocalModulesExpand ==
    (fmt = "terraform" /\ pc # "start") =>
        /\ ModuleContributes => IncludesLocalModule
        /\ \A n \in FileIdx : \A k \in 1..Len(load.files[n].resource) :
              \E r \in DOMAIN resources :
                  /\ ~InModule(r)
                  /\ r[1] = load.files[n].resource[k].type
                  /\ r[2][Len(r[2])] = load.files[n].resource[k].name

\* The first of two files includes "/terraform/modules/net", a path outside
\* the project root: nothing of the module is loaded, both files are.
C18_Witness ==
    /\ TfLoaded
    /\ Len(load.files) = 2
    /\ load.files[1].module # <<>>
    /\ load.files[1].module[1].source = <<"/", "terraform", "modules", "net">>
    /\ load.files[1].resource # <<>>
    /\ load.files[2].resource # <<>>
    /\ ~ModuleContributes
    /\ Cardinality(DOMAIN resources) = 2

(***************************************************************************)
(* C19.  Bicep: the symbol after "parent:" and every bare identifier of    *)
(* the dependsOn block of resource R (on one line or over several) that    *)
(* names a resource declared anywhere in the loaded files, before or after *)
(* R, yields the edge (identifier, R).                                     *)
(***************************************************************************)
BicepDone == fmt = "bicep" /\ pc = "done"

\* The symbols the file declares.
BicepDeclared == {load.written.order[i] : i \in 1..Len(load.written.order)}

\* The identifiers written in the body of R after "parent:" and inside its
\* dependsOn block.
BodyRefs(R) ==
    (IF load.written.parent[R] = None THEN {} ELSE {load.written.parent[R]})
    \cup (CASE load.written.depends[R] = "one_line" -> {"vnet"}
            [] load.written.depends[R] = "multi_line" -> {"subnet", "nic"}
            [] OTHER -> {})

C19_BicepReferencesAnywhere ==
    BicepDone =>
        \A R \in BicepDeclared : \A x \in BodyRefs(R) :
            (x \in BicepDeclared /\ x # R) => <<x, R>> \in edges

\* The position of a declared symbol in the file.
BicepPos(sym) ==
    CHOOSE i \in 1..Len(load.written.order) : load.written.order[i] = sym

\* The same for the references to resources declared before R.
C19_BicepReferencesEarlier ==
    BicepDone =>
        \A R \in BicepDeclared : \A x \in BodyRefs(R) :
            (x \in BicepDeclared /\ x # R /\ BicepPos(x) < BicepPos(R))
                => <<x, R>> \in edges

(***************************************************************************)
(* C20.  Bicep: an edge into resource R comes only from a parent: or       *)
(* dependsOn: line inside R's own body.  Once the body of R has closed,    *)
(* also when it opened and closed on the declaration line, no later line   *)
(* (such as one of a following module block) is attributed to R, and the   *)
(* dependsOn state of one resource does not reach the next.                *)
(***************************************************************************)
C20_BicepEdgesFromOwnBody ==
    BicepDone =>
        \A e \in edges : e[2] \in BicepDeclared /\ e[1] \in BodyRefs(e[2])

\* The module block follows a declaration written on one line.
ModuleAfterInline ==
    /\ load.written.module_after > 0
    /\ load.written.order[load.written.module_after] \in load.written.inline

\* The same for the files in which no module block follows a one-line
\* declaration.
C20_BicepEdgesFromOwnBodyOfBlocks ==
    (BicepDone /\ ~ModuleAfterInline) =>
        \A e \in edges : e[2] \in BicepDeclared /\ e[1] \in BodyRefs(e[2])

(***************************************************************************)
(* C21.  CloudFormation: an entry of the Resources map is admitted as a    *)
(* resource only if its value contains a Type.  An entry without Type is   *)
(* not in the returned resource map and is no endpoint of an edge; the id  *)
(* of every admitted resource is its logical id.                           *)
(***************************************************************************)
\* The entries of the Resources maps of the load, as written.
CfnWritten ==
    UNION {{[id |-> id, body |-> load.templates[i].v["Resources"].v[id]] :
               id \in DOMAIN load.templates[i].v["Resources"].v} :
           i \in 1..Len(load.templates)}

CfnLoaded == fmt = "cloudformation" /\ pc \in {"loaded", "done"}

C21_CfnResourcesHaveType ==
    CfnLoaded =>
        /\ \A id \in DOMAIN resources :
              /\ \E w \in CfnWritten : w.id = id /\ w.body = resources[id]
              /\ "Type" \in DOMAIN resources[id].v
        /\ \A e \in edges :
              \A w \in CfnWritten :
                 w.id \in {e[1], e[2]} => "Type" \in DOMAIN w.body.v

\* The same for the logical ids alone: every admitted id is a key of some
\* Resources map, with the body written there.
C21_CfnIdsAreLogicalIds ==
    CfnLoaded =>
        \A id \in DOMAIN resources :
            \E w \in CfnWritten : w.id = id /\ w.body = resources[id]

(***************************************************************************)
(* C22.  For every Network N and every Plain resource R: R is listed under *)
(* hierarchy[N]["other"] exactly when an edge joins N and R, in either     *)
(* direction, and R is linked to no Subnet; the key "other" is absent from *)
(* hierarchy[N] when there is no such R.                                   *)
(***************************************************************************)
Nested == pc = "nested"

Networks == {r \in DOMAIN resources : r[1] = "aws_vpc"}

Subnets == {r \in DOMAIN resources : r[1] = "aws_subnet"}

Plains == (DOMAIN resources) \ (Networks \cup Subnets)

\* An edge joins a and b, in either direction.
Joined(a, b) == <<a, b>> \in edges \/ <<b, a>> \in edges

\* The targets the resource r names under one of the keys.
NamedUnder(r, keys, targets) ==
    {t \in targets :
        \E key \in keys \cap DOMAIN resources[r] :
            \E s \in StringsIn(resources[r][key]) : Names(s, t)}

\* The Subnets a Plain resource is linked to, by an edge or by an attribute.
SubnetLinks(R) ==
    {S \in Subnets : Joined(S, R)}
    \cup NamedUnder(R, {"subnet_id", "subnet_ids", "subnet", "subnets"},
                    Subnets)

\* The members of a list.
Range(list) == {list[i] : i \in 1..Len(list)}

\* The resources listed under hierarchy[N]["other"].
OtherOf(N) ==
    IF Other \in DOMAIN hierarchy[N] THEN Range(hierarchy[N][Other]) ELSE {}

C22_OtherBucket ==
    Nested =>
        \A N \in Networks :
            /\ N \in DOMAIN hierarchy
            /\ \A R \in Plains :
                 R \in OtherOf(N) <=> (Joined(N, R) /\ SubnetLinks(R) = {})
            /\ OtherOf(N) \subseteq Plains
            /\ Other \in DOMAIN hierarchy[N] => OtherOf(N) # {}

\* The security group references the VPC, the instance is joined to the VPC
\* and to a subnet: only the security group is listed under "other".
C22_Witness ==
    /\ Nested
    /\ edges = {<<<<"aws_security_group", <<"sg">>>>, <<"aws_vpc", <<"main">>>>>>,
                <<<<"aws_vpc", <<"main">>>>, <<"aws_instance", <<"web">>>>>>}
    /\ "subnet_id" \in DOMAIN resources[<<"aws_instance", <<"web">>>>]
    /\ <<"aws_subnet", <<"public">>>> \in DOMAIN resources
    /\ hierarchy[<<"aws_vpc", <<"main">>>>][Other]
         = <<<<"aws_security_group", <<"sg">>>>>>

(***************************************************************************)
(* C23.  When several parents are possible for a Subnet or for a Plain     *)
(* resource, _build_vpc_hierarchy chooses the first candidate met in       *)
(* traversal order: the parent of the first edge of the walk that joins    *)
(* the resource to a candidate and, without such an edge, the candidate    *)
(* named under the earliest of the listed keys.                            *)
(***************************************************************************)
\* The greatest member of a set of numbers.
Greatest(S) == CHOOSE x \in S : \A y \in S : y <= x

\* The Networks under which hierarchy lists the Subnet S.
NetworksOf(S) == {N \in DOMAIN hierarchy : S \in DOMAIN hierarchy[N]}

\* The Subnets in whose list hierarchy holds the Plain resource R.
SubnetsOf(R) ==
    {S \in Subnets :
        \E N \in DOMAIN hierarchy :
            S \in DOMAIN hierarchy[N] /\ R \in Range(hierarchy[N][S])}

\* The positions of the walk of the edge set that join r to a candidate.
JoiningEdges(r, candidates) ==
    {i \in 1..Len(load.edge_order) :
        \/ load.edge_order[i][1] = r /\ load.edge_order[i][2] \in candidates
        \/ load.edge_order[i][2] = r /\ load.edge_order[i][1] \in candidates}

\* The other end of the edge at position i.
OtherEnd(r, i) ==
    IF load.edge_order[i][1] = r THEN load.edge_order[i][2]
    ELSE load.edge_order[i][1]

\* The positions of the listed keys under which r names a candidate.
KeysNaming(r, keys, candidates) ==
    {i \in 1..Len(keys) : NamedUnder(r, {keys[i]}, candidates) # {}}

\* The candidate met first: by the walk of the edges, else by the keys.
FirstCandidate(r, keys, candidates) ==
    IF JoiningEdges(r, candidates) # {}
    THEN {OtherEnd(r, Min(JoiningEdges(r, candidates)))}
    ELSE IF KeysNaming(r, keys, candidates) # {}
         THEN {FirstIn(load.ref_order,
                       NamedUnder(r, {keys[Min(KeysNaming(r, keys,
                                                          candidates))]},
                                  candidates))}
         ELSE {}

\* The candidate met last: by the walk of the edges, else by the keys.
LastCandidate(r, keys, candidates) ==
    IF JoiningEdges(r, candidates) # {}
    THEN {OtherEnd(r, Greatest(JoiningEdges(r, candidates)))}
    ELSE IF KeysNaming(r, keys, candidates) # {}
         THEN {FirstIn(load.ref_order,
                       NamedUnder(r, {keys[Greatest(KeysNaming(r, keys,
                                                          candidates))]},
                                  candidates))}
         ELSE {}

NetworkKeys == <<"vpc_id", "virtual_network_name", "vcn_id">>

SubnetKeys == <<"subnet_id", "subnet_ids", "subnet", "subnets">>

C23_FirstCandidateWins ==
    Nested =>
        /\ \A S \in Subnets :
             NetworksOf(S) = FirstCandidate(S, NetworkKeys, Networks)
        /\ \A R \in Plains :
             /\ SubnetsOf(R) \subseteq FirstCandidate(R, SubnetKeys, Subnets)
             /\ \A S \in FirstCandidate(R, SubnetKeys, Subnets) :
                  NetworksOf(S) # {} => S \in SubnetsOf(R)

\* What the source does: the last joining edge of the walk decides, and
\* without one the last of the listed keys that names a candidate.
C23_LastCandidateWins ==
    Nested =>
        /\ \A S \in Subnets :
             NetworksOf(S) = LastCandidate(S, NetworkKeys, Networks)
        /\ \A R \in Plains :
             /\ SubnetsOf(R) \subseteq LastCandidate(R, SubnetKeys, Subnets)
             /\ \A S \in LastCandidate(R, SubnetKeys, Subnets) :
                  NetworksOf(S) # {} => S \in SubnetsOf(R)

(***************************************************************************)
(* C24.  _build_vpc_hierarchy is a function of the values of its inputs:   *)
(* a second call on the same resource map and the same edge set gives      *)
(* every Subnet and every Plain resource the same parent, whatever the     *)
(* order in which the edge set and the reference sets are walked.          *)
(***************************************************************************)
\* The parents hierarchy gives to each Subnet and each Plain resource.
HierarchyParents ==
    [r \in Subnets \cup Plains |->
        IF r \in Subnets THEN NetworksOf(r)
        ELSE SubnetsOf(r) \cup {N \in DOMAIN hierarchy : r \in OtherOf(N)}]

C24_SameInputsSameParents ==
    [][Nested => HierarchyParents' = HierarchyParents]_vars

\* No resource is joined by edges to two candidates, and no key of a
\* resource names two candidates.
NoTies ==
    /\ \A S \in Subnets :
         /\ Cardinality({N \in Networks : Joined(S, N)}) <= 1
         /\ \A i \in 1..Len(NetworkKeys) :
              Cardinality(NamedUnder(S, {NetworkKeys[i]}, Networks)) <= 1
    /\ \A R \in Plains :
         /\ Cardinality({S \in Subnets : Joined(S, R)}) <= 1
         /\ \A i \in 1..Len(SubnetKeys) :
              Cardinality(NamedUnder(R, {SubnetKeys[i]}, Subnets)) <= 1

\* What the source guarantees: the parents are the same without such ties.
C24_SameParentsWithoutTies ==
    [][(Nested /\ NoTies) => HierarchyParents' = HierarchyParents]_vars

(***************************************************************************)
(* C27.  The hierarchy is a containment forest: its top-level keys are     *)
(* exactly the Network-classified resources, no Subnet appears under two   *)
(* Networks, no Plain resource appears in the lists of two Subnets, and no *)
(* list, the "other" list included, holds the same resource id twice.      *)
(***************************************************************************)
\* The list has no repeated member.
NoDuplicates(list) ==
    \A i, j \in 1..Len(list) : list[i] = list[j] => i = j

\* Keys, Subnets and Plain resources each have one place.
ForestShape ==
    /\ DOMAIN hierarchy = Networks
    /\ \A S \in Subnets : Cardinality(NetworksOf(S)) <= 1
    /\ \A R \in Plains : Cardinality(SubnetsOf(R)) <= 1

C27_ContainmentForest ==
    Nested =>
        /\ ForestShape
        /\ \A N \in DOMAIN hierarchy :
             \A k \in DOMAIN hierarchy[N] : NoDuplicates(hierarchy[N][k])

\* What the source guarantees: the shape, and no repetition in the lists
\* of the Subnets; the "other" list repeats a resource joined both ways.
C27_ForestButOther ==
    Nested =>
        /\ ForestShape
        /\ \A N \in DOMAIN hierarchy :
             \A k \in (DOMAIN hierarchy[N]) \ {Other} :
                 NoDuplicates(hierarchy[N][k])
        /\ \A N \in DOMAIN hierarchy :
           \A R \in OtherOf(N) :
             Cardinality({i \in 1..Len(hierarchy[N][Other]) :
                             hierarchy[N][Other][i] = R})
               = Cardinality({e \in edges : e = <<N, R>> \/ e = <<R, N>>})

(***************************************************************************)
(* C25.  The edges of a Terraform load come from the declared attribute    *)
(* bodies only: every reference-derived edge (T, R) has a string of the    *)
(* declared body of R that names T, as written or by its local id; the     *)
(* bookkeeping keys contribute no edge, whatever the path of the source    *)
(* file.                                                                   *)
(***************************************************************************)
\* The id as written in its source file: type and local name.
LocalId(t) == <<t[1], <<t[2][Len(t[2])]>>>>

\* The declared body of r has a string naming t or the local id of t.
DeclaredReference(r, t) ==
    \E s \in Walk(DeclaredBody(resources[r])) :
        Names(s, t) \/ Names(s, LocalId(t))

C25_EdgesFromDeclaredBodies ==
    TfDone => \A e \in direct_edges : DeclaredReference(e[2], e[1])

\* A source file of the load, input or module file, is named after t.
FileNamedAfter(t) ==
    \/ \E i \in FileIdx : Names(PathScalar(load.files[i].path), t)
    \/ \E d \in DOMAIN load.fs :
         \E i \in 1..Len(load.fs[d]) :
             Names(PathScalar(load.fs[d][i].path), t)

\* What the source guarantees: an edge without a declared reference starts
\* at a resource whose id occurs in the path of a source file.
C25_EdgesFromBodiesOrPaths ==
    TfDone =>
        \A e \in direct_edges :
            DeclaredReference(e[2], e[1]) \/ FileNamedAfter(LocalId(e[1]))

IncludedDirs ==
    {d \in DOMAIN load.fs :
        \E n \in FileIdx :
            /\ load.files[n].module # <<>>
            /\ load.files[n].module[1].source
                 = <<"..", "modules", d[Len(d)]>>}

\* Some file of the directory d declares the local id t.
DirDeclares(d, t) ==
    \E i \in 1..Len(load.fs[d]) : Declares(load.fs[d][i], t)

\* The module atoms in the name of an id.
ModuleDepth(r) == Cardinality({i \in 1..Len(r[2]) : r[2][i] \in ModuleAtoms})

OneLevelOnly ==
    (fmt = "terraform" /\ pc # "start") =>
        \A r \in DOMAIN resources :
            InModule(r) =>
                /\ ModuleDepth(r) = 1
                /\ \E d \in IncludedDirs : DirDeclares(d, LocalId(r))

C28_ModulesOneLevelDeep ==
    /\ []OneLevelOnly
    /\ [][(fmt = "terraform" /\ pc = "start")
            => pc' \in {"loaded", "raised"}]_vars

\* The input file includes net, net includes core and core includes net:
\* the subnet of net is loaded, the instance of core is not.
C28_Witness ==
    /\ fmt = "terraform"
    /\ pc = "loaded"
    /\ load.files[1].module # <<>>
    /\ load.fs[ModuleDir][1].module = NestedModule("core")
    /\ load.fs[CoreDir][1].module = NestedModule("net")
    /\ <<"aws_subnet", <<"module_net", "public">>>> \in DOMAIN resources
    /\ \A r \in DOMAIN resources : r[1] # "aws_instance"

(***************************************************************************)
(* C29.  In _static_terraform_mermaid distinct resource ids of one load    *)
(* receive distinct Mermaid node ids: the text has one node per resource,  *)
(* its edges correspond one to one to the edges _static_terraform_graph    *)
(* returns for the same files, and no Mermaid edge joins a node to itself. *)
(***************************************************************************)
Rendered == fmt = "terraform" /\ pc = "rendered"

\* The node id the Mermaid text gives to a resource.
NodeOf(res) == out_mmd[1].node_id_by_res[res]

C29_OneNodePerResource ==
    Rendered =>
        /\ \A a, b \in DOMAIN resources : NodeOf(a) = NodeOf(b) => a = b
        /\ Cardinality(out_mmd[1].nodes) = Cardinality(DOMAIN resources)
        /\ out_mmd[1].arrows = {<<NodeOf(e[1]), NodeOf(e[2])>> : e \in edges}
        /\ Cardinality(out_mmd[1].arrows) = Cardinality(edges)
        /\ \A a \in out_mmd[1].arrows : a[1] # a[2]

\* What the source guarantees: every arrow is the image of an edge of the
\* graph and every edge has its arrow; two resources whose ids differ only
\* in where "_", "." and "__" stand share one node.
C29_ArrowsAreImagesOfEdges ==
    Rendered =>
        /\ DOMAIN out_mmd[1].node_id_by_res = DOMAIN resources
        /\ out_mmd[1].nodes = {NodeOf(r) : r \in DOMAIN resources}
        /\ out_mmd[1].arrows = {<<NodeOf(e[1]), NodeOf(e[2])>> : e \in edges}

(***************************************************************************)
(* C30.  _static_terraform_mermaid returns the assumptions text "No        *)
(* explicit references found; connections are heuristic to show grouping." *)
(* exactly when the edges it emits come from the fallback chain, no        *)
(* reference-derived edge existing, and the text about inferred references *)
(* exactly when the emitted edges are reference-derived.                   *)
(***************************************************************************)
C30_AssumptionsTellEdgeOrigin ==
    Rendered =>
        /\ out_mmd[1].assumptions
             = "No explicit references found; connections are heuristic to show grouping."
             <=> direct_edges = {}
        /\ out_mmd[1].assumptions
             = "Connections represent inferred references (including depends_on and attribute references)."
             <=> direct_edges # {}

\* What the source does: the heuristic text is returned only when the text
\* holds no edge at all, the chain having given none either.
C30_HeuristicOnlyWithoutEdges ==
    Rendered =>
        /\ out_mmd[1].assumptions
             = "No explicit references found; connections are heuristic to show grouping."
             <=> out_mmd[1].arrows = {}
        /\ out_mmd[1].assumptions
             = "Connections represent inferred references (including depends_on and attribute references)."
             <=> out_mmd[1].arrows # {}

====
